---- MODULE Spec2Model ----
(***************************************************************************)
(* Model of StatusCheck/url_status_checker.py: the company-name cleaner,   *)
(* the candidate URL generator, the rate limiter, and the three batch      *)
(* strategies (check_websites_sequential, check_websites_parallel,         *)
(* WebsiteChecker.run_async) run one after the other on one company list   *)
(* against one deterministic transport.                                    *)
(* Further specifications run parts of the program on their own: the      *)
(* rate limiter (SpecRL), the strategies under any concurrency bound       *)
(* (SpecConfig), the pool against the limiter's capacity (SpecPool), the   *)
(* name cleaner and the URL generator (SpecClean), the lru_cache around    *)
(* the cleaner (SpecCache), and task3_parallel_sequential_write of         *)
(* main.py (SpecTask3).                                                    *)
(*                                                                         *)
(* Strings are sequences of one-character strings.  A Python None is the   *)
(* empty tuple <<>> and a Python int n is the tuple <<n>>, so that the     *)
(* status codes None and 0 stay different values.  The 'time_taken' field  *)
(* of a result is not part of this model.                                  *)
(***************************************************************************)
EXTENDS Integers, Sequences, FiniteSets, TLC

\* ------------------------------------------------------------------ bounds
MaxCompanies == 2
MaxWorkers == 2
MaxConcurrent == 2
MaxCallers == 2
MaxCalls == 2
MaxRateLimit == 2
MaxClock == 6
MaxCacheSize == 2
MaxCacheCalls == 4
MaxDuration == 2
MaxLines == 5
MaxQueued == 2
MaxBatch == 3
MaxThreads == 2
MaxCpu == 2

\* ------------------------------------------------- strings (name cleaning)
\* The characters that str.split(), str.strip() and the pattern \s treat as
\* whitespace (str.isspace).  A character that has no escape in a string
\* here is written by its code point, "U+00A0" being the no-break space.
Whitespace ==
    {" ", "\t", "\n", "\r", "\f", "U+000B", "U+001C", "U+001D", "U+001E",
     "U+001F", "U+0085", "U+00A0", "U+1680", "U+2000", "U+2001", "U+2002",
     "U+2003", "U+2004", "U+2005", "U+2006", "U+2007", "U+2008", "U+2009",
     "U+200A", "U+2028", "U+2029", "U+202F", "U+205F", "U+3000"}

\* '\ufeff"\'' (the byte-order mark is written "BOM")
StripChars == {"BOM", "\"", "'"}

Punctuation == {"!", "@", "#", "$", "%", "^", "&", "*", "(", ")", "_", "+",
                "-", "=", "[", "]", "{", "}", "|", ";", ":", ",", ".", "<",
                ">", "?"}

\* A-Z and their lower case: what str.lower() and re.IGNORECASE do to the
\* ASCII letters
AsciiLower ==
    ("A" :> "a") @@ ("B" :> "b") @@ ("C" :> "c") @@ ("D" :> "d") @@
    ("E" :> "e") @@ ("F" :> "f") @@ ("G" :> "g") @@ ("H" :> "h") @@
    ("I" :> "i") @@ ("J" :> "j") @@ ("K" :> "k") @@ ("L" :> "l") @@
    ("M" :> "m") @@ ("N" :> "n") @@ ("O" :> "o") @@ ("P" :> "p") @@
    ("Q" :> "q") @@ ("R" :> "r") @@ ("S" :> "s") @@ ("T" :> "t") @@
    ("U" :> "u") @@ ("V" :> "v") @@ ("W" :> "w") @@ ("X" :> "x") @@
    ("Y" :> "y") @@ ("Z" :> "z")

\* The hexadecimal digit of n at the place of value k
HexDigit(n, k) ==
    LET digits == <<"0", "1", "2", "3", "4", "5", "6", "7", "8", "9", "A",
                    "B", "C", "D", "E", "F">>
    IN  digits[((n \div k) % 16) + 1]

\* The character with code point n, for n outside ASCII: "U+" and the code
\* point in four hexadecimal digits, five from U+10000 on
CodePoint(n) ==
    IF n = \hFEFF THEN "BOM"
    ELSE IF n < \h10000
         THEN "U+" \o HexDigit(n, \h1000) \o HexDigit(n, \h100)
                   \o HexDigit(n, \h10) \o HexDigit(n, 1)
         ELSE "U+" \o HexDigit(n, \h10000) \o HexDigit(n, \h1000)
                   \o HexDigit(n, \h100) \o HexDigit(n, \h10)
                   \o HexDigit(n, 1)

\* str.lower() of the characters outside ASCII that have a lower case of one
\* character, also outside ASCII: <<first, last, step, delta>> says that
\* the code points first, first + step, ..., last are lowered by adding delta
LowerRuns ==
    { <<\h00C0, \h00D6, 1, 32>>, <<\h00D8, \h00DE, 1, 32>>,
      <<\h0100, \h012E, 2, 1>>, <<\h0132, \h0136, 2, 1>>,
      <<\h0139, \h0147, 2, 1>>, <<\h014A, \h0176, 2, 1>>,
      <<\h0178, \h0178, 1, -121>>, <<\h0179, \h017D, 2, 1>>,
      <<\h0181, \h0181, 1, 210>>, <<\h0182, \h0184, 2, 1>>,
      <<\h0186, \h0186, 1, 206>>, <<\h0187, \h0187, 1, 1>>,
      <<\h0189, \h018A, 1, 205>>, <<\h018B, \h018B, 1, 1>>,
      <<\h018E, \h018E, 1, 79>>, <<\h018F, \h018F, 1, 202>>,
      <<\h0190, \h0190, 1, 203>>, <<\h0191, \h0191, 1, 1>>,
      <<\h0193, \h0193, 1, 205>>, <<\h0194, \h0194, 1, 207>>,
      <<\h0196, \h0196, 1, 211>>, <<\h0197, \h0197, 1, 209>>,
      <<\h0198, \h0198, 1, 1>>, <<\h019C, \h019C, 1, 211>>,
      <<\h019D, \h019D, 1, 213>>, <<\h019F, \h019F, 1, 214>>,
      <<\h01A0, \h01A4, 2, 1>>, <<\h01A6, \h01A6, 1, 218>>,
      <<\h01A7, \h01A7, 1, 1>>, <<\h01A9, \h01A9, 1, 218>>,
      <<\h01AC, \h01AC, 1, 1>>, <<\h01AE, \h01AE, 1, 218>>,
      <<\h01AF, \h01AF, 1, 1>>, <<\h01B1, \h01B2, 1, 217>>,
      <<\h01B3, \h01B5, 2, 1>>, <<\h01B7, \h01B7, 1, 219>>,
      <<\h01B8, \h01B8, 1, 1>>, <<\h01BC, \h01BC, 1, 1>>,
      <<\h01C4, \h01C4, 1, 2>>, <<\h01C5, \h01C5, 1, 1>>,
      <<\h01C7, \h01C7, 1, 2>>, <<\h01C8, \h01C8, 1, 1>>,
      <<\h01CA, \h01CA, 1, 2>>, <<\h01CB, \h01DB, 2, 1>>,
      <<\h01DE, \h01EE, 2, 1>>, <<\h01F1, \h01F1, 1, 2>>,
      <<\h01F2, \h01F4, 2, 1>>, <<\h01F6, \h01F6, 1, -97>>,
      <<\h01F7, \h01F7, 1, -56>>, <<\h01F8, \h021E, 2, 1>>,
      <<\h0220, \h0220, 1, -130>>, <<\h0222, \h0232, 2, 1>>,
      <<\h023A, \h023A, 1, 10795>>, <<\h023B, \h023B, 1, 1>>,
      <<\h023D, \h023D, 1, -163>>, <<\h023E, \h023E, 1, 10792>>,
      <<\h0241, \h0241, 1, 1>>, <<\h0243, \h0243, 1, -195>>,
      <<\h0244, \h0244, 1, 69>>, <<\h0245, \h0245, 1, 71>>,
      <<\h0246, \h024E, 2, 1>>, <<\h0370, \h0372, 2, 1>>,
      <<\h0376, \h0376, 1, 1>>, <<\h037F, \h037F, 1, 116>>,
      <<\h0386, \h0386, 1, 38>>, <<\h0388, \h038A, 1, 37>>,
      <<\h038C, \h038C, 1, 64>>, <<\h038E, \h038F, 1, 63>>,
      <<\h0391, \h03A1, 1, 32>>, <<\h03A3, \h03AB, 1, 32>>,
      <<\h03CF, \h03CF, 1, 8>>, <<\h03D8, \h03EE, 2, 1>>,
      <<\h03F4, \h03F4, 1, -60>>, <<\h03F7, \h03F7, 1, 1>>,
      <<\h03F9, \h03F9, 1, -7>>, <<\h03FA, \h03FA, 1, 1>>,
      <<\h03FD, \h03FF, 1, -130>>, <<\h0400, \h040F, 1, 80>>,
      <<\h0410, \h042F, 1, 32>>, <<\h0460, \h0480, 2, 1>>,
      <<\h048A, \h04BE, 2, 1>>, <<\h04C0, \h04C0, 1, 15>>,
      <<\h04C1, \h04CD, 2, 1>>, <<\h04D0, \h052E, 2, 1>>,
      <<\h0531, \h0556, 1, 48>>, <<\h10A0, \h10C5, 1, 7264>>,
      <<\h10C7, \h10C7, 1, 7264>>, <<\h10CD, \h10CD, 1, 7264>>,
      <<\h13A0, \h13EF, 1, 38864>>, <<\h13F0, \h13F5, 1, 8>>,
      <<\h1C90, \h1CBA, 1, -3008>>, <<\h1CBD, \h1CBF, 1, -3008>>,
      <<\h1E00, \h1E94, 2, 1>>, <<\h1E9E, \h1E9E, 1, -7615>>,
      <<\h1EA0, \h1EFE, 2, 1>>, <<\h1F08, \h1F0F, 1, -8>>,
      <<\h1F18, \h1F1D, 1, -8>>, <<\h1F28, \h1F2F, 1, -8>>,
      <<\h1F38, \h1F3F, 1, -8>>, <<\h1F48, \h1F4D, 1, -8>>,
      <<\h1F59, \h1F5F, 2, -8>>, <<\h1F68, \h1F6F, 1, -8>>,
      <<\h1F88, \h1F8F, 1, -8>>, <<\h1F98, \h1F9F, 1, -8>>,
      <<\h1FA8, \h1FAF, 1, -8>>, <<\h1FB8, \h1FB9, 1, -8>>,
      <<\h1FBA, \h1FBB, 1, -74>>, <<\h1FBC, \h1FBC, 1, -9>>,
      <<\h1FC8, \h1FCB, 1, -86>>, <<\h1FCC, \h1FCC, 1, -9>>,
      <<\h1FD8, \h1FD9, 1, -8>>, <<\h1FDA, \h1FDB, 1, -100>>,
      <<\h1FE8, \h1FE9, 1, -8>>, <<\h1FEA, \h1FEB, 1, -112>>,
      <<\h1FEC, \h1FEC, 1, -7>>, <<\h1FF8, \h1FF9, 1, -128>>,
      <<\h1FFA, \h1FFB, 1, -126>>, <<\h1FFC, \h1FFC, 1, -9>>,
      <<\h2126, \h2126, 1, -7517>>, <<\h212B, \h212B, 1, -8262>>,
      <<\h2132, \h2132, 1, 28>>, <<\h2160, \h216F, 1, 16>>,
      <<\h2183, \h2183, 1, 1>>, <<\h24B6, \h24CF, 1, 26>>,
      <<\h2C00, \h2C2F, 1, 48>>, <<\h2C60, \h2C60, 1, 1>>,
      <<\h2C62, \h2C62, 1, -10743>>, <<\h2C63, \h2C63, 1, -3814>>,
      <<\h2C64, \h2C64, 1, -10727>>, <<\h2C67, \h2C6B, 2, 1>>,
      <<\h2C6D, \h2C6D, 1, -10780>>, <<\h2C6E, \h2C6E, 1, -10749>>,
      <<\h2C6F, \h2C6F, 1, -10783>>, <<\h2C70, \h2C70, 1, -10782>>,
      <<\h2C72, \h2C72, 1, 1>>, <<\h2C75, \h2C75, 1, 1>>,
      <<\h2C7E, \h2C7F, 1, -10815>>, <<\h2C80, \h2CE2, 2, 1>>,
      <<\h2CEB, \h2CED, 2, 1>>, <<\h2CF2, \h2CF2, 1, 1>>,
      <<\hA640, \hA66C, 2, 1>>, <<\hA680, \hA69A, 2, 1>>,
      <<\hA722, \hA72E, 2, 1>>, <<\hA732, \hA76E, 2, 1>>,
      <<\hA779, \hA77B, 2, 1>>, <<\hA77D, \hA77D, 1, -35332>>,
      <<\hA77E, \hA786, 2, 1>>, <<\hA78B, \hA78B, 1, 1>>,
      <<\hA78D, \hA78D, 1, -42280>>, <<\hA790, \hA792, 2, 1>>,
      <<\hA796, \hA7A8, 2, 1>>, <<\hA7AA, \hA7AA, 1, -42308>>,
      <<\hA7AB, \hA7AB, 1, -42319>>, <<\hA7AC, \hA7AC, 1, -42315>>,
      <<\hA7AD, \hA7AD, 1, -42305>>, <<\hA7AE, \hA7AE, 1, -42308>>,
      <<\hA7B0, \hA7B0, 1, -42258>>, <<\hA7B1, \hA7B1, 1, -42282>>,
      <<\hA7B2, \hA7B2, 1, -42261>>, <<\hA7B3, \hA7B3, 1, 928>>,
      <<\hA7B4, \hA7C2, 2, 1>>, <<\hA7C4, \hA7C4, 1, -48>>,
      <<\hA7C5, \hA7C5, 1, -42307>>, <<\hA7C6, \hA7C6, 1, -35384>>,
      <<\hA7C7, \hA7C9, 2, 1>>, <<\hA7D0, \hA7D0, 1, 1>>,
      <<\hA7D6, \hA7D8, 2, 1>>, <<\hA7F5, \hA7F5, 1, 1>>,
      <<\hFF21, \hFF3A, 1, 32>>, <<\h10400, \h10427, 1, 40>>,
      <<\h104B0, \h104D3, 1, 40>>, <<\h10570, \h1057A, 1, 39>>,
      <<\h1057C, \h1058A, 1, 39>>, <<\h1058C, \h10592, 1, 39>>,
      <<\h10594, \h10595, 1, 39>>, <<\h10C80, \h10CB2, 1, 64>>,
      <<\h118A0, \h118BF, 1, 32>>, <<\h16E40, \h16E5F, 1, 32>>,
      <<\h1E900, \h1E921, 1, 34>> }

\* The function from each of these characters to its lower case
NonAsciiLower ==
    LET pairs ==
            UNION { { <<CodePoint(r[1] + k * r[3]),
                        CodePoint(r[1] + k * r[3] + r[4])>> :
                        k \in 0..((r[2] - r[1]) \div r[3]) } : r \in LowerRuns }
    IN  [c \in { p[1] : p \in pairs } |->
            (CHOOSE p \in pairs : p[1] = c)[2]]

\* The cased characters that are not case-ignorable, outside ASCII, as
\* ranges <<first, last>> of code points
CasedRanges ==
    { <<\h00AA, \h00AA>>, <<\h00B5, \h00B5>>, <<\h00BA, \h00BA>>,
      <<\h00C0, \h00D6>>, <<\h00D8, \h00F6>>, <<\h00F8, \h01BA>>,
      <<\h01BC, \h01BF>>, <<\h01C4, \h0293>>, <<\h0295, \h02AF>>,
      <<\h0370, \h0373>>, <<\h0376, \h0377>>, <<\h037B, \h037D>>,
      <<\h037F, \h037F>>, <<\h0386, \h0386>>, <<\h0388, \h038A>>,
      <<\h038C, \h038C>>, <<\h038E, \h03A1>>, <<\h03A3, \h03F5>>,
      <<\h03F7, \h0481>>, <<\h048A, \h052F>>, <<\h0531, \h0556>>,
      <<\h0560, \h0588>>, <<\h10A0, \h10C5>>, <<\h10C7, \h10C7>>,
      <<\h10CD, \h10CD>>, <<\h10D0, \h10FA>>, <<\h10FD, \h10FF>>,
      <<\h13A0, \h13F5>>, <<\h13F8, \h13FD>>, <<\h1C80, \h1C88>>,
      <<\h1C90, \h1CBA>>, <<\h1CBD, \h1CBF>>, <<\h1D00, \h1D2B>>,
      <<\h1D6B, \h1D77>>, <<\h1D79, \h1D9A>>, <<\h1E00, \h1F15>>,
      <<\h1F18, \h1F1D>>, <<\h1F20, \h1F45>>, <<\h1F48, \h1F4D>>,
      <<\h1F50, \h1F57>>, <<\h1F59, \h1F59>>, <<\h1F5B, \h1F5B>>,
      <<\h1F5D, \h1F5D>>, <<\h1F5F, \h1F7D>>, <<\h1F80, \h1FB4>>,
      <<\h1FB6, \h1FBC>>, <<\h1FBE, \h1FBE>>, <<\h1FC2, \h1FC4>>,
      <<\h1FC6, \h1FCC>>, <<\h1FD0, \h1FD3>>, <<\h1FD6, \h1FDB>>,
      <<\h1FE0, \h1FEC>>, <<\h1FF2, \h1FF4>>, <<\h1FF6, \h1FFC>>,
      <<\h2102, \h2102>>, <<\h2107, \h2107>>, <<\h210A, \h2113>>,
      <<\h2115, \h2115>>, <<\h2119, \h211D>>, <<\h2124, \h2124>>,
      <<\h2126, \h2126>>, <<\h2128, \h2128>>, <<\h212A, \h212D>>,
      <<\h212F, \h2134>>, <<\h2139, \h2139>>, <<\h213C, \h213F>>,
      <<\h2145, \h2149>>, <<\h214E, \h214E>>, <<\h2160, \h217F>>,
      <<\h2183, \h2184>>, <<\h24B6, \h24E9>>, <<\h2C00, \h2C7B>>,
      <<\h2C7E, \h2CE4>>, <<\h2CEB, \h2CEE>>, <<\h2CF2, \h2CF3>>,
      <<\h2D00, \h2D25>>, <<\h2D27, \h2D27>>, <<\h2D2D, \h2D2D>>,
      <<\hA640, \hA66D>>, <<\hA680, \hA69B>>, <<\hA722, \hA76F>>,
      <<\hA771, \hA787>>, <<\hA78B, \hA78E>>, <<\hA790, \hA7CA>>,
      <<\hA7D0, \hA7D1>>, <<\hA7D3, \hA7D3>>, <<\hA7D5, \hA7D9>>,
      <<\hA7F5, \hA7F6>>, <<\hA7FA, \hA7FA>>, <<\hAB30, \hAB5A>>,
      <<\hAB60, \hAB68>>, <<\hAB70, \hABBF>>, <<\hFB00, \hFB06>>,
      <<\hFB13, \hFB17>>, <<\hFF21, \hFF3A>>, <<\hFF41, \hFF5A>>,
      <<\h10400, \h1044F>>, <<\h104B0, \h104D3>>, <<\h104D8, \h104FB>>,
      <<\h10570, \h1057A>>, <<\h1057C, \h1058A>>, <<\h1058C, \h10592>>,
      <<\h10594, \h10595>>, <<\h10597, \h105A1>>, <<\h105A3, \h105B1>>,
      <<\h105B3, \h105B9>>, <<\h105BB, \h105BC>>, <<\h10C80, \h10CB2>>,
      <<\h10CC0, \h10CF2>>, <<\h118A0, \h118DF>>, <<\h16E40, \h16E7F>>,
      <<\h1D400, \h1D454>>, <<\h1D456, \h1D49C>>, <<\h1D49E, \h1D49F>>,
      <<\h1D4A2, \h1D4A2>>, <<\h1D4A5, \h1D4A6>>, <<\h1D4A9, \h1D4AC>>,
      <<\h1D4AE, \h1D4B9>>, <<\h1D4BB, \h1D4BB>>, <<\h1D4BD, \h1D4C3>>,
      <<\h1D4C5, \h1D505>>, <<\h1D507, \h1D50A>>, <<\h1D50D, \h1D514>>,
      <<\h1D516, \h1D51C>>, <<\h1D51E, \h1D539>>, <<\h1D53B, \h1D53E>>,
      <<\h1D540, \h1D544>>, <<\h1D546, \h1D546>>, <<\h1D54A, \h1D550>>,
      <<\h1D552, \h1D6A5>>, <<\h1D6A8, \h1D6C0>>, <<\h1D6C2, \h1D6DA>>,
      <<\h1D6DC, \h1D6FA>>, <<\h1D6FC, \h1D714>>, <<\h1D716, \h1D734>>,
      <<\h1D736, \h1D74E>>, <<\h1D750, \h1D76E>>, <<\h1D770, \h1D788>>,
      <<\h1D78A, \h1D7A8>>, <<\h1D7AA, \h1D7C2>>, <<\h1D7C4, \h1D7CB>>,
      <<\h1DF00, \h1DF09>>, <<\h1DF0B, \h1DF1E>>, <<\h1E900, \h1E943>>,
      <<\h1F130, \h1F149>>, <<\h1F150, \h1F169>>, <<\h1F170, \h1F189>> }

\* The case-ignorable characters outside ASCII (of ASCII, the apostrophe,
\* the full stop, the colon, the circumflex and the grave accent U+0060)
CaseIgnorableRanges ==
    { <<\h00A8, \h00A8>>, <<\h00AD, \h00AD>>, <<\h00AF, \h00AF>>,
      <<\h00B4, \h00B4>>, <<\h00B7, \h00B8>>, <<\h02B0, \h036F>>,
      <<\h0374, \h0375>>, <<\h037A, \h037A>>, <<\h0384, \h0385>>,
      <<\h0387, \h0387>>, <<\h0483, \h0489>>, <<\h0559, \h0559>>,
      <<\h055F, \h055F>>, <<\h0591, \h05BD>>, <<\h05BF, \h05BF>>,
      <<\h05C1, \h05C2>>, <<\h05C4, \h05C5>>, <<\h05C7, \h05C7>>,
      <<\h05F4, \h05F4>>, <<\h0600, \h0605>>, <<\h0610, \h061A>>,
      <<\h061C, \h061C>>, <<\h0640, \h0640>>, <<\h064B, \h065F>>,
      <<\h0670, \h0670>>, <<\h06D6, \h06DD>>, <<\h06DF, \h06E8>>,
      <<\h06EA, \h06ED>>, <<\h070F, \h070F>>, <<\h0711, \h0711>>,
      <<\h0730, \h074A>>, <<\h07A6, \h07B0>>, <<\h07EB, \h07F5>>,
      <<\h07FA, \h07FA>>, <<\h07FD, \h07FD>>, <<\h0816, \h082D>>,
      <<\h0859, \h085B>>, <<\h0888, \h0888>>, <<\h0890, \h0891>>,
      <<\h0898, \h089F>>, <<\h08C9, \h0902>>, <<\h093A, \h093A>>,
      <<\h093C, \h093C>>, <<\h0941, \h0948>>, <<\h094D, \h094D>>,
      <<\h0951, \h0957>>, <<\h0962, \h0963>>, <<\h0971, \h0971>>,
      <<\h0981, \h0981>>, <<\h09BC, \h09BC>>, <<\h09C1, \h09C4>>,
      <<\h09CD, \h09CD>>, <<\h09E2, \h09E3>>, <<\h09FE, \h09FE>>,
      <<\h0A01, \h0A02>>, <<\h0A3C, \h0A3C>>, <<\h0A41, \h0A42>>,
      <<\h0A47, \h0A48>>, <<\h0A4B, \h0A4D>>, <<\h0A51, \h0A51>>,
      <<\h0A70, \h0A71>>, <<\h0A75, \h0A75>>, <<\h0A81, \h0A82>>,
      <<\h0ABC, \h0ABC>>, <<\h0AC1, \h0AC5>>, <<\h0AC7, \h0AC8>>,
      <<\h0ACD, \h0ACD>>, <<\h0AE2, \h0AE3>>, <<\h0AFA, \h0AFF>>,
      <<\h0B01, \h0B01>>, <<\h0B3C, \h0B3C>>, <<\h0B3F, \h0B3F>>,
      <<\h0B41, \h0B44>>, <<\h0B4D, \h0B4D>>, <<\h0B55, \h0B56>>,
      <<\h0B62, \h0B63>>, <<\h0B82, \h0B82>>, <<\h0BC0, \h0BC0>>,
      <<\h0BCD, \h0BCD>>, <<\h0C00, \h0C00>>, <<\h0C04, \h0C04>>,
      <<\h0C3C, \h0C3C>>, <<\h0C3E, \h0C40>>, <<\h0C46, \h0C48>>,
      <<\h0C4A, \h0C4D>>, <<\h0C55, \h0C56>>, <<\h0C62, \h0C63>>,
      <<\h0C81, \h0C81>>, <<\h0CBC, \h0CBC>>, <<\h0CBF, \h0CBF>>,
      <<\h0CC6, \h0CC6>>, <<\h0CCC, \h0CCD>>, <<\h0CE2, \h0CE3>>,
      <<\h0D00, \h0D01>>, <<\h0D3B, \h0D3C>>, <<\h0D41, \h0D44>>,
      <<\h0D4D, \h0D4D>>, <<\h0D62, \h0D63>>, <<\h0D81, \h0D81>>,
      <<\h0DCA, \h0DCA>>, <<\h0DD2, \h0DD4>>, <<\h0DD6, \h0DD6>>,
      <<\h0E31, \h0E31>>, <<\h0E34, \h0E3A>>, <<\h0E46, \h0E4E>>,
      <<\h0EB1, \h0EB1>>, <<\h0EB4, \h0EBC>>, <<\h0EC6, \h0EC6>>,
      <<\h0EC8, \h0ECD>>, <<\h0F18, \h0F19>>, <<\h0F35, \h0F35>>,
      <<\h0F37, \h0F37>>, <<\h0F39, \h0F39>>, <<\h0F71, \h0F7E>>,
      <<\h0F80, \h0F84>>, <<\h0F86, \h0F87>>, <<\h0F8D, \h0F97>>,
      <<\h0F99, \h0FBC>>, <<\h0FC6, \h0FC6>>, <<\h102D, \h1030>>,
      <<\h1032, \h1037>>, <<\h1039, \h103A>>, <<\h103D, \h103E>>,
      <<\h1058, \h1059>>, <<\h105E, \h1060>>, <<\h1071, \h1074>>,
      <<\h1082, \h1082>>, <<\h1085, \h1086>>, <<\h108D, \h108D>>,
      <<\h109D, \h109D>>, <<\h10FC, \h10FC>>, <<\h135D, \h135F>>,
      <<\h1712, \h1714>>, <<\h1732, \h1733>>, <<\h1752, \h1753>>,
      <<\h1772, \h1773>>, <<\h17B4, \h17B5>>, <<\h17B7, \h17BD>>,
      <<\h17C6, \h17C6>>, <<\h17C9, \h17D3>>, <<\h17D7, \h17D7>>,
      <<\h17DD, \h17DD>>, <<\h180B, \h180F>>, <<\h1843, \h1843>>,
      <<\h1885, \h1886>>, <<\h18A9, \h18A9>>, <<\h1920, \h1922>>,
      <<\h1927, \h1928>>, <<\h1932, \h1932>>, <<\h1939, \h193B>>,
      <<\h1A17, \h1A18>>, <<\h1A1B, \h1A1B>>, <<\h1A56, \h1A56>>,
      <<\h1A58, \h1A5E>>, <<\h1A60, \h1A60>>, <<\h1A62, \h1A62>>,
      <<\h1A65, \h1A6C>>, <<\h1A73, \h1A7C>>, <<\h1A7F, \h1A7F>>,
      <<\h1AA7, \h1AA7>>, <<\h1AB0, \h1ACE>>, <<\h1B00, \h1B03>>,
      <<\h1B34, \h1B34>>, <<\h1B36, \h1B3A>>, <<\h1B3C, \h1B3C>>,
      <<\h1B42, \h1B42>>, <<\h1B6B, \h1B73>>, <<\h1B80, \h1B81>>,
      <<\h1BA2, \h1BA5>>, <<\h1BA8, \h1BA9>>, <<\h1BAB, \h1BAD>>,
      <<\h1BE6, \h1BE6>>, <<\h1BE8, \h1BE9>>, <<\h1BED, \h1BED>>,
      <<\h1BEF, \h1BF1>>, <<\h1C2C, \h1C33>>, <<\h1C36, \h1C37>>,
      <<\h1C78, \h1C7D>>, <<\h1CD0, \h1CD2>>, <<\h1CD4, \h1CE0>>,
      <<\h1CE2, \h1CE8>>, <<\h1CED, \h1CED>>, <<\h1CF4, \h1CF4>>,
      <<\h1CF8, \h1CF9>>, <<\h1D2C, \h1D6A>>, <<\h1D78, \h1D78>>,
      <<\h1D9B, \h1DFF>>, <<\h1FBD, \h1FBD>>, <<\h1FBF, \h1FC1>>,
      <<\h1FCD, \h1FCF>>, <<\h1FDD, \h1FDF>>, <<\h1FED, \h1FEF>>,
      <<\h1FFD, \h1FFE>>, <<\h200B, \h200F>>, <<\h2018, \h2019>>,
      <<\h2024, \h2024>>, <<\h2027, \h2027>>, <<\h202A, \h202E>>,
      <<\h2060, \h2064>>, <<\h2066, \h206F>>, <<\h2071, \h2071>>,
      <<\h207F, \h207F>>, <<\h2090, \h209C>>, <<\h20D0, \h20F0>>,
      <<\h2C7C, \h2C7D>>, <<\h2CEF, \h2CF1>>, <<\h2D6F, \h2D6F>>,
      <<\h2D7F, \h2D7F>>, <<\h2DE0, \h2DFF>>, <<\h2E2F, \h2E2F>>,
      <<\h3005, \h3005>>, <<\h302A, \h302D>>, <<\h3031, \h3035>>,
      <<\h303B, \h303B>>, <<\h3099, \h309E>>, <<\h30FC, \h30FE>>,
      <<\hA015, \hA015>>, <<\hA4F8, \hA4FD>>, <<\hA60C, \hA60C>>,
      <<\hA66F, \hA672>>, <<\hA674, \hA67D>>, <<\hA67F, \hA67F>>,
      <<\hA69C, \hA69F>>, <<\hA6F0, \hA6F1>>, <<\hA700, \hA721>>,
      <<\hA770, \hA770>>, <<\hA788, \hA78A>>, <<\hA7F2, \hA7F4>>,
      <<\hA7F8, \hA7F9>>, <<\hA802, \hA802>>, <<\hA806, \hA806>>,
      <<\hA80B, \hA80B>>, <<\hA825, \hA826>>, <<\hA82C, \hA82C>>,
      <<\hA8C4, \hA8C5>>, <<\hA8E0, \hA8F1>>, <<\hA8FF, \hA8FF>>,
      <<\hA926, \hA92D>>, <<\hA947, \hA951>>, <<\hA980, \hA982>>,
      <<\hA9B3, \hA9B3>>, <<\hA9B6, \hA9B9>>, <<\hA9BC, \hA9BD>>,
      <<\hA9CF, \hA9CF>>, <<\hA9E5, \hA9E6>>, <<\hAA29, \hAA2E>>,
      <<\hAA31, \hAA32>>, <<\hAA35, \hAA36>>, <<\hAA43, \hAA43>>,
      <<\hAA4C, \hAA4C>>, <<\hAA70, \hAA70>>, <<\hAA7C, \hAA7C>>,
      <<\hAAB0, \hAAB0>>, <<\hAAB2, \hAAB4>>, <<\hAAB7, \hAAB8>>,
      <<\hAABE, \hAABF>>, <<\hAAC1, \hAAC1>>, <<\hAADD, \hAADD>>,
      <<\hAAEC, \hAAED>>, <<\hAAF3, \hAAF4>>, <<\hAAF6, \hAAF6>>,
      <<\hAB5B, \hAB5F>>, <<\hAB69, \hAB6B>>, <<\hABE5, \hABE5>>,
      <<\hABE8, \hABE8>>, <<\hABED, \hABED>>, <<\hFB1E, \hFB1E>>,
      <<\hFBB2, \hFBC2>>, <<\hFE00, \hFE0F>>, <<\hFE13, \hFE13>>,
      <<\hFE20, \hFE2F>>, <<\hFE52, \hFE52>>, <<\hFE55, \hFE55>>,
      <<\hFEFF, \hFEFF>>, <<\hFF07, \hFF07>>, <<\hFF0E, \hFF0E>>,
      <<\hFF1A, \hFF1A>>, <<\hFF3E, \hFF3E>>, <<\hFF40, \hFF40>>,
      <<\hFF70, \hFF70>>, <<\hFF9E, \hFF9F>>, <<\hFFE3, \hFFE3>>,
      <<\hFFF9, \hFFFB>>, <<\h101FD, \h101FD>>, <<\h102E0, \h102E0>>,
      <<\h10376, \h1037A>>, <<\h10780, \h10785>>, <<\h10787, \h107B0>>,
      <<\h107B2, \h107BA>>, <<\h10A01, \h10A03>>, <<\h10A05, \h10A06>>,
      <<\h10A0C, \h10A0F>>, <<\h10A38, \h10A3A>>, <<\h10A3F, \h10A3F>>,
      <<\h10AE5, \h10AE6>>, <<\h10D24, \h10D27>>, <<\h10EAB, \h10EAC>>,
      <<\h10F46, \h10F50>>, <<\h10F82, \h10F85>>, <<\h11001, \h11001>>,
      <<\h11038, \h11046>>, <<\h11070, \h11070>>, <<\h11073, \h11074>>,
      <<\h1107F, \h11081>>, <<\h110B3, \h110B6>>, <<\h110B9, \h110BA>>,
      <<\h110BD, \h110BD>>, <<\h110C2, \h110C2>>, <<\h110CD, \h110CD>>,
      <<\h11100, \h11102>>, <<\h11127, \h1112B>>, <<\h1112D, \h11134>>,
      <<\h11173, \h11173>>, <<\h11180, \h11181>>, <<\h111B6, \h111BE>>,
      <<\h111C9, \h111CC>>, <<\h111CF, \h111CF>>, <<\h1122F, \h11231>>,
      <<\h11234, \h11234>>, <<\h11236, \h11237>>, <<\h1123E, \h1123E>>,
      <<\h112DF, \h112DF>>, <<\h112E3, \h112EA>>, <<\h11300, \h11301>>,
      <<\h1133B, \h1133C>>, <<\h11340, \h11340>>, <<\h11366, \h1136C>>,
      <<\h11370, \h11374>>, <<\h11438, \h1143F>>, <<\h11442, \h11444>>,
      <<\h11446, \h11446>>, <<\h1145E, \h1145E>>, <<\h114B3, \h114B8>>,
      <<\h114BA, \h114BA>>, <<\h114BF, \h114C0>>, <<\h114C2, \h114C3>>,
      <<\h115B2, \h115B5>>, <<\h115BC, \h115BD>>, <<\h115BF, \h115C0>>,
      <<\h115DC, \h115DD>>, <<\h11633, \h1163A>>, <<\h1163D, \h1163D>>,
      <<\h1163F, \h11640>>, <<\h116AB, \h116AB>>, <<\h116AD, \h116AD>>,
      <<\h116B0, \h116B5>>, <<\h116B7, \h116B7>>, <<\h1171D, \h1171F>>,
      <<\h11722, \h11725>>, <<\h11727, \h1172B>>, <<\h1182F, \h11837>>,
      <<\h11839, \h1183A>>, <<\h1193B, \h1193C>>, <<\h1193E, \h1193E>>,
      <<\h11943, \h11943>>, <<\h119D4, \h119D7>>, <<\h119DA, \h119DB>>,
      <<\h119E0, \h119E0>>, <<\h11A01, \h11A0A>>, <<\h11A33, \h11A38>>,
      <<\h11A3B, \h11A3E>>, <<\h11A47, \h11A47>>, <<\h11A51, \h11A56>>,
      <<\h11A59, \h11A5B>>, <<\h11A8A, \h11A96>>, <<\h11A98, \h11A99>>,
      <<\h11C30, \h11C36>>, <<\h11C38, \h11C3D>>, <<\h11C3F, \h11C3F>>,
      <<\h11C92, \h11CA7>>, <<\h11CAA, \h11CB0>>, <<\h11CB2, \h11CB3>>,
      <<\h11CB5, \h11CB6>>, <<\h11D31, \h11D36>>, <<\h11D3A, \h11D3A>>,
      <<\h11D3C, \h11D3D>>, <<\h11D3F, \h11D45>>, <<\h11D47, \h11D47>>,
      <<\h11D90, \h11D91>>, <<\h11D95, \h11D95>>, <<\h11D97, \h11D97>>,
      <<\h11EF3, \h11EF4>>, <<\h13430, \h13438>>, <<\h16AF0, \h16AF4>>,
      <<\h16B30, \h16B36>>, <<\h16B40, \h16B43>>, <<\h16F4F, \h16F4F>>,
      <<\h16F8F, \h16F9F>>, <<\h16FE0, \h16FE1>>, <<\h16FE3, \h16FE4>>,
      <<\h1AFF0, \h1AFF3>>, <<\h1AFF5, \h1AFFB>>, <<\h1AFFD, \h1AFFE>>,
      <<\h1BC9D, \h1BC9E>>, <<\h1BCA0, \h1BCA3>>, <<\h1CF00, \h1CF2D>>,
      <<\h1CF30, \h1CF46>>, <<\h1D167, \h1D169>>, <<\h1D173, \h1D182>>,
      <<\h1D185, \h1D18B>>, <<\h1D1AA, \h1D1AD>>, <<\h1D242, \h1D244>>,
      <<\h1DA00, \h1DA36>>, <<\h1DA3B, \h1DA6C>>, <<\h1DA75, \h1DA75>>,
      <<\h1DA84, \h1DA84>>, <<\h1DA9B, \h1DA9F>>, <<\h1DAA1, \h1DAAF>>,
      <<\h1E000, \h1E006>>, <<\h1E008, \h1E018>>, <<\h1E01B, \h1E021>>,
      <<\h1E023, \h1E024>>, <<\h1E026, \h1E02A>>, <<\h1E130, \h1E13D>>,
      <<\h1E2AE, \h1E2AE>>, <<\h1E2EC, \h1E2EF>>, <<\h1E8D0, \h1E8D6>>,
      <<\h1E944, \h1E94B>>, <<\h1F3FB, \h1F3FF>>, <<\hE0001, \hE0001>>,
      <<\hE0020, \hE007F>>, <<\hE0100, \hE01EF>> }

Cased ==
    DOMAIN AsciiLower \cup { AsciiLower[c] : c \in DOMAIN AsciiLower }
        \cup { CodePoint(n) : n \in UNION { r[1]..r[2] : r \in CasedRanges } }

CaseIgnorable ==
    {"'", ".", ":", "^", "U+0060"}
        \cup { CodePoint(n) :
                    n \in UNION { r[1]..r[2] : r \in CaseIgnorableRanges } }

\* Whether the capital sigma at s[i] is lowered to the final sigma: the
\* nearest character before it that is not case-ignorable is cased, and the
\* nearest one after it, if any, is not
FinalSigma(s, i) ==
    LET before == { j \in 1..(i - 1) : s[j] \notin CaseIgnorable }
        after == { j \in (i + 1)..Len(s) : s[j] \notin CaseIgnorable }
    IN  /\ before # {}
        /\ s[CHOOSE j \in before : \A k \in before : k <= j] \in Cased
        /\ \/ after = {}
           \/ s[CHOOSE j \in after : \A k \in after : j <= k] \notin Cased

\* What str.lower() puts in the place of s[i]: the capital I with a dot
\* becomes two characters, the Kelvin sign becomes k
LowerAt(s, i) ==
    LET c == s[i]
    IN  IF c \in DOMAIN AsciiLower THEN <<AsciiLower[c]>>
        ELSE IF c = "U+0130" THEN <<"i", "U+0307">>
        ELSE IF c = "U+212A" THEN <<"k">>
        ELSE IF c = "U+03A3"
             THEN IF FinalSigma(s, i) THEN <<"U+03C2">> ELSE <<"U+03C3">>
        ELSE IF c \in DOMAIN NonAsciiLower THEN <<NonAsciiLower[c]>>
        ELSE <<c>>

RECURSIVE LowerFrom(_, _)
LowerFrom(s, i) ==
    IF i > Len(s) THEN <<>> ELSE LowerAt(s, i) \o LowerFrom(s, i + 1)

\* str.lower()
Lower(s) == LowerFrom(s, 1)

RECURSIVE LStrip(_, _)
LStrip(s, chars) ==
    IF s # <<>> /\ Head(s) \in chars THEN LStrip(Tail(s), chars) ELSE s

RECURSIVE RStrip(_, _)
RStrip(s, chars) ==
    IF s # <<>> /\ s[Len(s)] \in chars
    THEN RStrip(SubSeq(s, 1, Len(s) - 1), chars)
    ELSE s

\* str.strip(chars)
Strip(s, chars) == RStrip(LStrip(s, chars), chars)

\* str.translate(str.maketrans('', '', chars)): delete every character of chars
Delete(s, chars) == SelectSeq(s, LAMBDA c : c \notin chars)

\* ' '.join(s.split()): trim, and collapse each whitespace run to one space
RECURSIVE Collapse(_)
Collapse(s) ==
    IF s = <<>> THEN <<>>
    ELSE IF Head(s) \in Whitespace
         THEN LET rest == LStrip(s, Whitespace)
              IN  IF rest = <<>> THEN <<>> ELSE <<" ">> \o Collapse(rest)
         ELSE <<Head(s)>> \o Collapse(Tail(s))

JoinSplit(s) == Collapse(LStrip(s, Whitespace))

\* The six suffix patterns, in the order of the list: the word in lower case
\* (the patterns are compiled with re.IGNORECASE) and whether \.? follows it.
suffixes ==
    << [word |-> <<"i", "n", "c">>, dot |-> TRUE],
       [word |-> <<"c", "o", "r", "p">>, dot |-> TRUE],
       [word |-> <<"i", "n", "c", "o", "r", "p", "o", "r", "a", "t", "e", "d">>,
        dot |-> FALSE],
       [word |-> <<"c", "o", "r", "p", "o", "r", "a", "t", "i", "o", "n">>,
        dot |-> FALSE],
       [word |-> <<"l", "i", "m", "i", "t", "e", "d">>, dot |-> FALSE],
       [word |-> <<"l", "t", "d">>, dot |-> TRUE] >>

\* What a letter of one of the patterns matches under re.IGNORECASE: the
\* letter, its upper case and, for i, the capital I with a dot (U+0130) and
\* the dotless i (U+0131).  The letters of the six words have no other
\* case variant.
MatchesLetter(c, letter) ==
    \/ c = letter
    \/ c \in DOMAIN AsciiLower /\ AsciiLower[c] = letter
    \/ letter = "i" /\ c \in {"U+0130", "U+0131"}

\* Where $ matches: at the end of the string, and before a newline that is
\* the last character.  No pattern can end on that newline, so a match ends
\* where the string without it ends.
BeforeFinalNewline(s) ==
    IF s # <<>> /\ s[Len(s)] = "\n" THEN SubSeq(s, 1, Len(s) - 1) ELSE s

\* The part of s up to the word of the pattern, if the pattern matches: the
\* optional dot, when the pattern has one, is the character before the $.
Undotted(s, suffix) ==
    LET t == BeforeFinalNewline(s)
    IN  IF suffix.dot /\ t # <<>> /\ t[Len(t)] = "."
        THEN SubSeq(t, 1, Len(t) - 1)
        ELSE t

\* suffix.search(s) is not None: one or more whitespace characters, the word
\* in any case, the optional dot, and $
EndsWithWord(s, suffix) ==
    LET u == Undotted(s, suffix)
        word == suffix.word
    IN  /\ Len(u) > Len(word)
        /\ u[Len(u) - Len(word)] \in Whitespace
        /\ \A k \in 1..Len(word) :
              MatchesLetter(u[Len(u) - Len(word) + k], word[k])

\* suffix.sub('', name) for the pattern \s+word$ or \s+word\.?$: the match
\* starts at the first character of the whitespace run before the word, and a
\* final newline after the match stays
SuffixSub(s, suffix) ==
    LET t == BeforeFinalNewline(s)
        u == Undotted(s, suffix)
    IN  IF EndsWithWord(s, suffix)
        THEN RStrip(SubSeq(u, 1, Len(u) - Len(suffix.word)), Whitespace)
                \o SubSeq(s, Len(t) + 1, Len(s))
        ELSE s

RECURSIVE ApplySuffixes(_, _)
ApplySuffixes(s, k) ==
    IF k > Len(suffixes) THEN s
    ELSE ApplySuffixes(SuffixSub(s, suffixes[k]), k + 1)

clean_company_name(name) ==
    JoinSplit(Delete(ApplySuffixes(Strip(name, StripChars), 1), Punctuation))

\* ---------------------------------------------------------- candidate URLs
url_variations ==
    << <<"https://www.", ".com">>,
       <<"https://", ".com">>,
       <<"http://www.", ".com">>,
       <<"http://", ".com">>,
       <<"https://", ".net">>,
       <<"https://www.", ".org">> >>

NumCandidates == Len(url_variations)

\* HostOf without the lower()
HostOfAsCleaned(name) == Delete(clean_company_name(name), {" "})

\* clean_company_name(name).lower().replace(' ', '')
HostOf(name) == Delete(Lower(clean_company_name(name)), {" "})

generate_website_urls(name) ==
    [i \in 1..NumCandidates |->
        <<url_variations[i][1], HostOf(name), url_variations[i][2]>>]

\* ------------------------------------------------------------ the inputs
\* The names given to clean_company_name: up to MaxTokens pieces, each a
\* word, a space, a newline, a no-break space, a corporate suffix after a
\* space, a punctuation mark or a quote.  One word is of capitals outside
\* ASCII (E with an acute accent, U+00C9, and sigma, U+03A3), and one suffix
\* is written with the capital I with a dot (U+0130).
MaxTokens == 3

SuffixTokens ==
    { <<" ", "I", "n", "c">>,
      <<" ", "C", "o", "r", "p", "o", "r", "a", "t", "i", "o", "n">>,
      <<" ", "L", "t", "d">> }

Tokens ==
    { <<"A", "b">>, <<" ">>, <<"\n">>, <<"U+00A0">>, <<".">>, <<",">>, <<"'">>,
      <<"U+00C9", "U+03A3">>, <<" ", "U+0130", "n", "c">> }
        \cup SuffixTokens

RECURSIVE NamesOf(_)
NamesOf(n) ==
    IF n = 0 THEN { <<>> }
    ELSE LET shorter == NamesOf(n - 1)
         IN  shorter \cup { s \o t : s \in shorter, t \in Tokens }

Names == NamesOf(MaxTokens)

\* "Acme Inc." and "Bad News, Inc."
CompanyNames ==
    { <<"A", "c", "m", "e", " ", "I", "n", "c", ".">>,
      <<"B", "a", "d", " ", "N", "e", "w", "s", ",", " ", "I", "n", "c", ".">> }

CompanyLists == UNION { [1..n -> CompanyNames] : n \in 0..MaxCompanies }

\* The cleaned name and the candidate URLs of each company name of the model,
\* computed once.
CleanedName == [name \in CompanyNames |-> clean_company_name(name)]

CandidateURLs == [name \in CompanyNames |-> generate_website_urls(name)]

Hosts == { CandidateURLs[name][1][2] : name \in CompanyNames }

AllURLs == { CandidateURLs[name][i] :
                name \in CompanyNames, i \in 1..NumCandidates }

\* What one GET does: an HTTP response with a status code, or a failure
\* (requests.RequestException, aiohttp.ClientError, asyncio.TimeoutError).
Failure == [ok |-> FALSE, status |-> 0]

Response(code) == [ok |-> TRUE, status |-> code]

StatusCodes == {200, 404}

\* The transports: for each host the first k-1 candidates fail, candidate k
\* answers with any status code and every later candidate answers 500;
\* k = NumCandidates + 1 is the host no candidate of which answers.
Profiles ==
    { [i \in 1..NumCandidates |->
          IF i < k THEN Failure
          ELSE IF i = k THEN Response(code) ELSE Response(500)] :
      k \in 1..(NumCandidates + 1), code \in StatusCodes }

TemplateIndex(url) ==
    CHOOSE i \in 1..NumCandidates : url_variations[i] = <<url[1], url[3]>>

Transports ==
    { [url \in AllURLs |-> p[url[2]][TemplateIndex(url)]] :
      p \in [Hosts -> Profiles] }

\* ------------------------------------------------- attribute lookup
\* What WebsiteChecker.__init__ stores on the instance, and the functions the
\* class defines.  __init__ stores the float rate_limit under the name of the
\* method rate_limit.
InstanceAttributes ==
    {"timeout", "max_concurrent", "rate_limit", "semaphore", "last_request_time"}

ClassAttributes ==
    {"clean_company_name", "generate_website_urls", "rate_limit",
     "check_website_async", "check_websites_async", "run_async"}

\* self.<attr>: the instance's own value hides a function of the class
SelfLookup(attr) ==
    IF attr \in InstanceAttributes THEN "value"
    ELSE IF attr \in ClassAttributes THEN "method" ELSE "AttributeError"

\* ------------------------------------------------------------------ state
VARIABLES
    companies,          \* the company list given to every strategy
    transport,          \* the transport: URL -> outcome of a GET
    phase,              \* where the caller of the three strategies is
    requests,           \* number of GETs issued so far
    issued,             \* the GETs issued so far: strategy, company, URL
    performance,        \* per strategy: what analyze_performance returned
    grants,             \* the times at which rate_limit() returned, in order
    seq_i,              \* check_websites_sequential: index of the company
    seq_u,              \* check_websites_sequential: index of the URL
    seq_results,        \* check_websites_sequential: results
    max_workers,        \* check_websites_parallel: size of the pool
    par_pc,             \* per submitted company: queued, running, finished
    par_u,              \* check_single_company: index of the URL
    par_future,         \* check_single_company: the value returned
    par_outcome,        \* how check_websites_parallel ended
    par_results,        \* check_websites_parallel: results
    par_overtaken,      \* a call finished before one submitted earlier
    max_concurrent,     \* WebsiteChecker.max_concurrent
    semaphore,          \* WebsiteChecker.semaphore: the free slots
    last_request_time,  \* WebsiteChecker.last_request_time
    rate_limit,         \* WebsiteChecker.rate_limit, the float, in ticks
    task_pc,            \* per check_website_async task: its position
    task_future,        \* per check_website_async task: the value returned
    async_outcome,      \* how run_async ended
    async_results,      \* run_async: results
    now,                \* time.time(), in ticks
    call_via,           \* rate limiter callers: checker.rate_limit() ("self")
                        \* or WebsiteChecker.rate_limit(checker) ("class")
    rl_pc,              \* per rate limiter caller: its position
    rl_wake,            \* per rate limiter caller: when its sleep ends
    rl_calls            \* per rate limiter caller: calls that returned

inputVars == <<companies, transport>>

seqVars == <<seq_i, seq_u, seq_results>>

parVars == <<max_workers, par_pc, par_u, par_future, par_results,
            par_overtaken>>

asyncVars == <<max_concurrent, semaphore, task_pc, task_future,
               async_outcome, async_results>>

rlVars == <<now, call_via, rl_pc, rl_wake, rl_calls>>

\* one name through clean_company_name, twice, and generate_website_urls
VARIABLES
    clean_name,         \* the name given
    clean_pc,           \* which of the calls have been made
    cleaned,            \* clean_company_name(clean_name)
    recleaned,          \* clean_company_name(cleaned)
    urls                \* generate_website_urls(clean_name)

cleanVars == <<clean_name, clean_pc, cleaned, recleaned, urls>>

CleanIdle ==
    /\ clean_name = <<>>
    /\ clean_pc = "idle"
    /\ cleaned = <<>>
    /\ recleaned = <<>>
    /\ urls = <<>>

\* the lru_cache around clean_company_name
VARIABLES
    cache,              \* the entries kept, least recently used first
    cache_running,      \* per thread: <<name>> while the thread runs the
                        \* function after a miss on name, else <<>>
    cache_arg,          \* the argument of the last call that returned
    cache_ret,          \* what that call returned
    cache_calls,        \* number of calls made
    cache_misses,       \* cache_info().misses
    cache_hit           \* whether that call was a hit

cacheVars ==
    <<cache, cache_running, cache_arg, cache_ret, cache_calls, cache_misses,
      cache_hit>>

CacheIdle ==
    /\ cache = <<>>
    /\ cache_running = <<>>
    /\ cache_arg = <<>>
    /\ cache_ret = <<>>
    /\ cache_calls = 0
    /\ cache_misses = 0
    /\ cache_hit = FALSE

\* task3_parallel_sequential_write
VARIABLES
    t3_lines,           \* f.readlines() of the input file
    t3_cpu,             \* multiprocessing.cpu_count()
    t3_pc,              \* where the function is
    t3_num_processes,
    t3_chunks,
    t3_chunk_pc,        \* per chunk: "queued", "running" or "done"
    t3_processed,       \* per chunk: what process_chunk returned, or None
    t3_finished,        \* the chunks in the order in which they were done
    t3_output           \* the characters written to the output file

task3Vars == <<t3_lines, t3_cpu, t3_pc, t3_num_processes, t3_chunks,
               t3_chunk_pc, t3_processed, t3_finished, t3_output>>

Task3Idle ==
    /\ t3_lines = <<>>
    /\ t3_cpu = 1
    /\ t3_pc = "idle"
    /\ t3_num_processes = 0
    /\ t3_chunks = <<>>
    /\ t3_chunk_pc = <<>>
    /\ t3_processed = <<>>
    /\ t3_finished = <<>>
    /\ t3_output = <<>>

\* the time_taken of the results of the sequential and the pooled strategy
VARIABLES
    el_strategy,        \* "sequential" or "parallel"
    el_workers,         \* threads that issue GETs: 1, or max_workers
    el_first_ok,        \* per company: its first candidate that answers
    el_now,             \* time.time()
    el_start_time,      \* start_time of the strategy
    el_pc,              \* per company: "queued", "get" or "done"
    el_u,               \* per company: the candidate being tried
    el_get_start,       \* per company: when its GET in flight was issued
    el_began,           \* per company: when its first GET was issued
    el_ended,           \* per company: when its last GET ended
    el_time_taken       \* per company: 'time_taken' of its result, or None

elapsedVars == <<el_strategy, el_workers, el_first_ok, el_now, el_start_time,
                 el_pc, el_u, el_get_start, el_began, el_ended,
                 el_time_taken>>

ElapsedIdle ==
    /\ el_strategy = "idle"
    /\ el_workers = 0
    /\ el_first_ok = <<>>
    /\ el_now = 0
    /\ el_start_time = 0
    /\ el_pc = <<>>
    /\ el_u = <<>>
    /\ el_get_start = <<>>
    /\ el_began = <<>>
    /\ el_ended = <<>>
    /\ el_time_taken = <<>>

\* task7_threaded_queue_write
VARIABLES
    t7_lines,           \* infile.readlines()
    t7_num_threads,
    t7_main,            \* where the calling thread is
    t7_queue,           \* line_queue
    t7_pc,              \* per worker: where it is in its loop
    t7_line,            \* per worker: the line it took from the queue
    t7_lock,            \* file_lock: the worker that holds it, or 0
    t7_output           \* the lines of the output file

task7Vars == <<t7_lines, t7_num_threads, t7_main, t7_queue, t7_pc, t7_line,
               t7_lock, t7_output>>

Task7Idle ==
    /\ t7_lines = <<>>
    /\ t7_num_threads = 0
    /\ t7_main = "idle"
    /\ t7_queue = <<>>
    /\ t7_pc = <<>>
    /\ t7_line = <<>>
    /\ t7_lock = 0
    /\ t7_output = <<>>

\* task1_sequential_write and task2_batch_write on the same file
VARIABLES
    b_lines,            \* the lines of the clean file
    b_batch_size,
    b_pc,               \* which function runs, and where it is
    b_pos,              \* the number of lines the running function has read
    b_out1,             \* the output file of task1_sequential_write
    b_batch,            \* batch of task2_batch_write
    b_out2              \* the output file of task2_batch_write

batchVars == <<b_lines, b_batch_size, b_pc, b_pos, b_out1, b_batch, b_out2>>

BatchIdle ==
    /\ b_lines = <<>>
    /\ b_batch_size = 0
    /\ b_pc = "idle"
    /\ b_pos = 0
    /\ b_out1 = <<>>
    /\ b_batch = <<>>
    /\ b_out2 = <<>>

checkerVars ==
    <<inputVars, performance, par_outcome, phase, requests, issued, grants,
      seqVars, parVars, asyncVars, last_request_time, rate_limit, rlVars>>

vars == <<checkerVars, cleanVars, cacheVars, task3Vars, elapsedVars, task7Vars,
         batchVars>>

None == <<>>

\* the GET of strategy for the u-th candidate URL of companies[i]
Get(strategy, i, u) == [strategy |-> strategy, i |-> i, u |-> u]

NA == <<"N/A">>

Strategies == {"sequential", "parallel", "async"}

\* no strategy's list has been analyzed yet
NotAnalyzed == [s \in Strategies |-> None]

Result(company, url, status_code) ==
    [original_name |-> company,
     cleaned_name |-> CleanedName[company],
     url |-> url,
     status_code |-> status_code]

\* The first tick of the clock: time.time() is far more than rate_limit
\* after the zero that __init__ puts in last_request_time.
Epoch == MaxRateLimit

\* ------------------------------------------------- analyze_performance
\* sum(1 for code in status_codes if code > 0); None > 0 is a TypeError
Compares(results) == \A i \in DOMAIN results : results[i].status_code # None

PositiveOnly200(results) ==
    { i \in DOMAIN results : results[i].status_code[1] = 200 }

Positive(results) ==
    { i \in DOMAIN results : results[i].status_code[1] > 0 }

\* The metrics dictionary, its entries evaluated in the order written: the
\* count, then the sum (TypeError on a status_code None), then the sum
\* divided by len(results) (ZeroDivisionError on the empty list).  The
\* success rate successful / total * 100 is kept as the fraction <<n, d>>.
analyze_performance(results) ==
    IF ~Compares(results)
    THEN [raised |-> "TypeError", total_companies |-> Len(results),
          successful_checks |-> 0, success_rate |-> <<0, 1>>]
    ELSE IF Len(results) = 0
    THEN [raised |-> "ZeroDivisionError", total_companies |-> 0,
          successful_checks |-> 0, success_rate |-> <<0, 1>>]
    ELSE [raised |-> "", total_companies |-> Len(results),
          successful_checks |-> Cardinality(Positive(results)),
          success_rate |-> <<Cardinality(Positive(results)) * 100,
                             Len(results)>>]

Init ==
    /\ companies \in CompanyLists
    /\ transport \in Transports
    /\ phase = "sequential"
    /\ requests = 0
    /\ issued = {}
    /\ performance = NotAnalyzed
    /\ par_outcome = "none"
    /\ grants = <<>>
    /\ seq_i = 1
    /\ seq_u = 1
    /\ seq_results = <<>>
    /\ max_workers = 0
    /\ par_pc = <<>>
    /\ par_u = <<>>
    /\ par_future = <<>>
    /\ par_results = <<>>
    /\ par_overtaken = FALSE
    /\ max_concurrent = 0
    /\ semaphore = 0
    /\ last_request_time = 0
    /\ rate_limit = 1
    /\ task_pc = <<>>
    /\ task_future = <<>>
    /\ async_outcome = "none"
    /\ async_results = <<>>
    /\ now = Epoch
    /\ call_via = "self"
    /\ rl_pc = <<>>
    /\ rl_wake = <<>>
    /\ rl_calls = <<>>
    /\ CleanIdle
    /\ CacheIdle
    /\ Task3Idle
    /\ ElapsedIdle
    /\ Task7Idle
    /\ BatchIdle

\* ------------------------------------------ check_websites_sequential
\* One pass of the inner loop: requests.get(url), then append and break on a
\* response, continue on requests.RequestException.  A company whose last
\* URL fails leaves the inner loop without appending anything.
SeqGet ==
    /\ phase = "sequential"
    /\ seq_i <= Len(companies)
    /\ LET company == companies[seq_i]
           url == CandidateURLs[company][seq_u]
           response == transport[url]
       IN  /\ requests' = requests + 1
           /\ issued' = issued \cup {Get("sequential", seq_i, seq_u)}
           /\ IF response.ok
              THEN /\ seq_results' = Append(seq_results,
                          Result(company, url, <<response.status>>))
                   /\ seq_i' = seq_i + 1
                   /\ seq_u' = 1
              ELSE /\ seq_results' = seq_results
                   /\ IF seq_u < NumCandidates
                      THEN seq_u' = seq_u + 1 /\ seq_i' = seq_i
                      ELSE seq_u' = 1 /\ seq_i' = seq_i + 1
    /\ UNCHANGED <<inputVars, batchVars, task7Vars, elapsedVars, task3Vars,
                   cacheVars, cleanVars, performance, par_outcome, phase,
                   grants, parVars, asyncVars, last_request_time, rate_limit,
                   rlVars>>

SeqReturn ==
    /\ phase = "sequential"
    /\ seq_i > Len(companies)
    /\ phase' = "analyze_sequential"
    /\ UNCHANGED <<inputVars, batchVars, task7Vars, elapsedVars, task3Vars,
                   cacheVars, cleanVars, performance, par_outcome, requests,
                   issued, grants, seqVars, parVars, asyncVars,
                   last_request_time, rate_limit, rlVars>>

\* main: performance = analyze_performance(results) on the list just
\* returned.  main catches nothing: an exception of analyze_performance ends
\* the run, and no further strategy is started.
Analyze(strategy, results, next) ==
    /\ phase = "analyze_" \o strategy
    /\ performance' =
          [performance EXCEPT ![strategy] = analyze_performance(results)]
    /\ phase' = IF analyze_performance(results).raised = "" THEN next
                ELSE "raised"
    /\ par_overtaken' = FALSE
    /\ UNCHANGED <<inputVars, batchVars, task7Vars, elapsedVars, task3Vars,
                   cacheVars, cleanVars, par_outcome, requests, issued,
                   grants, seqVars, max_workers, par_pc, par_u, par_future,
                   par_results, asyncVars, last_request_time, rate_limit,
                   rlVars>>

AnalyzeSequential == Analyze("sequential", seq_results, "call_parallel")

\* -------------------------------------------- check_websites_parallel
\* check_websites_parallel(companies, max_workers = w).  ThreadPoolExecutor
\* raises ValueError for max_workers <= 0; otherwise executor.map submits
\* check_single_company for every company at once.
ParSubmitWith(w) ==
    /\ phase = "call_parallel"
    /\ max_workers' = w
    /\ IF w <= 0
       THEN /\ par_outcome' = "ValueError"
            /\ phase' = "raised"
            /\ UNCHANGED <<par_pc, par_u, par_future, par_results,
                           par_overtaken>>
       ELSE /\ par_pc' = [i \in 1..Len(companies) |-> "queued"]
            /\ par_u' = [i \in 1..Len(companies) |-> 1]
            /\ par_future' = [i \in 1..Len(companies) |-> None]
            /\ par_results' = <<>>
            /\ par_overtaken' = FALSE
            /\ phase' = "parallel"
            /\ par_outcome' = par_outcome
    /\ UNCHANGED <<inputVars, batchVars, task7Vars, elapsedVars, task3Vars,
                   cacheVars, cleanVars, performance, requests, issued,
                   grants, seqVars, asyncVars, last_request_time, rate_limit,
                   rlVars>>

ParSubmit == \E w \in 1..MaxWorkers : ParSubmitWith(w)

ParRunning == { i \in DOMAIN par_pc : par_pc[i] = "running" }

\* An idle worker thread takes the oldest queued call.
ParTake(i) ==
    /\ phase = "parallel"
    /\ par_pc[i] = "queued"
    /\ \A j \in 1..(i - 1) : par_pc[j] # "queued"
    /\ Cardinality(ParRunning) < max_workers
    /\ par_pc' = [par_pc EXCEPT ![i] = "running"]
    /\ UNCHANGED <<inputVars, batchVars, task7Vars, elapsedVars, task3Vars,
                   cacheVars, cleanVars, performance, par_outcome, phase,
                   requests, issued, grants, seqVars, max_workers, par_u,
                   par_future, par_results, par_overtaken, asyncVars,
                   last_request_time, rate_limit, rlVars>>

\* call i finishes while a call submitted before it has not finished
Overtakes(i, pc) ==
    /\ pc[i] = "finished"
    /\ \E j \in 1..(i - 1) : pc[j] # "finished"

\* ParGet with the return on a response left out: the loop goes on to the next
\* URL and the last URL that answers is the one reported.
ParGetNoReturn(i) ==
    /\ phase = "parallel"
    /\ par_pc[i] = "running"
    /\ LET company == companies[i]
           url == CandidateURLs[company][par_u[i]]
           response == transport[url]
           value == IF response.ok
                    THEN Result(company, url, <<response.status>>)
                    ELSE par_future[i]
       IN  /\ requests' = requests + 1
           /\ issued' = issued \cup {Get("parallel", i, par_u[i])}
           /\ IF par_u[i] < NumCandidates
              THEN /\ par_future' = [par_future EXCEPT ![i] = value]
                   /\ par_u' = [par_u EXCEPT ![i] = @ + 1]
                   /\ par_pc' = par_pc
              ELSE /\ par_future' = [par_future EXCEPT ![i] =
                          IF value = None THEN Result(company, NA, <<0>>)
                          ELSE value]
                   /\ par_pc' = [par_pc EXCEPT ![i] = "finished"]
                   /\ par_u' = par_u
    /\ par_overtaken' = (par_overtaken \/ Overtakes(i, par_pc'))
    /\ UNCHANGED <<inputVars, batchVars, task7Vars, elapsedVars, task3Vars,
                   cacheVars, cleanVars, performance, par_outcome, phase,
                   grants, seqVars, max_workers, par_results, asyncVars,
                   last_request_time, rate_limit, rlVars>>

\* ParGet that puts the value of a finished call at the end of the values
\* so far, as a list that every call appends to would hold them
ParGetAppending(i) ==
    /\ phase = "parallel"
    /\ par_pc[i] = "running"
    /\ LET company == companies[i]
           url == CandidateURLs[company][par_u[i]]
           response == transport[url]
           FirstFree == CHOOSE k \in DOMAIN par_future :
                            /\ par_future[k] = None
                            /\ \A j \in 1..(k - 1) : par_future[j] # None
       IN  /\ requests' = requests + 1
           /\ issued' = issued \cup {Get("parallel", i, par_u[i])}
           /\ IF response.ok
              THEN /\ par_future' = [par_future EXCEPT ![FirstFree] =
                          Result(company, url, <<response.status>>)]
                   /\ par_pc' = [par_pc EXCEPT ![i] = "finished"]
                   /\ par_u' = par_u
              ELSE IF par_u[i] < NumCandidates
              THEN /\ par_u' = [par_u EXCEPT ![i] = @ + 1]
                   /\ UNCHANGED <<par_future, par_pc>>
              ELSE /\ par_future' = [par_future EXCEPT ![FirstFree] =
                          Result(company, NA, <<0>>)]
                   /\ par_pc' = [par_pc EXCEPT ![i] = "finished"]
                   /\ par_u' = par_u
    /\ par_overtaken' = (par_overtaken \/ Overtakes(i, par_pc'))
    /\ UNCHANGED <<inputVars, batchVars, task7Vars, elapsedVars, task3Vars,
                   cacheVars, cleanVars, performance, par_outcome, phase,
                   grants, seqVars, max_workers, par_results, asyncVars,
                   last_request_time, rate_limit, rlVars>>

\* check_single_company: one pass of the loop; after the last URL has failed
\* the function returns the 'N/A' result, with status_code 0.
ParGet(i) ==
    /\ phase = "parallel"
    /\ par_pc[i] = "running"
    /\ LET company == companies[i]
           url == CandidateURLs[company][par_u[i]]
           response == transport[url]
       IN  /\ requests' = requests + 1
           /\ issued' = issued \cup {Get("parallel", i, par_u[i])}
           /\ IF response.ok
              THEN /\ par_future' = [par_future EXCEPT ![i] =
                          Result(company, url, <<response.status>>)]
                   /\ par_pc' = [par_pc EXCEPT ![i] = "finished"]
                   /\ par_u' = par_u
              ELSE IF par_u[i] < NumCandidates
              THEN /\ par_u' = [par_u EXCEPT ![i] = @ + 1]
                   /\ UNCHANGED <<par_future, par_pc>>
              ELSE /\ par_future' = [par_future EXCEPT ![i] =
                          Result(company, NA, <<0>>)]
                   /\ par_pc' = [par_pc EXCEPT ![i] = "finished"]
                   /\ par_u' = par_u
    /\ par_overtaken' = (par_overtaken \/ Overtakes(i, par_pc'))
    /\ UNCHANGED <<inputVars, batchVars, task7Vars, elapsedVars, task3Vars,
                   cacheVars, cleanVars, performance, par_outcome, phase,
                   grants, seqVars, max_workers, par_results, asyncVars,
                   last_request_time, rate_limit, rlVars>>

\* list(executor.map(...)): the values of the calls, in the order submitted
ParReturn ==
    /\ phase = "parallel"
    /\ \A i \in DOMAIN par_pc : par_pc[i] = "finished"
    /\ par_results' = par_future
    /\ par_outcome' = "returned"
    /\ phase' = "analyze_parallel"
    /\ UNCHANGED <<inputVars, batchVars, task7Vars, elapsedVars, task3Vars,
                   cacheVars, cleanVars, performance, requests, issued,
                   grants, seqVars, max_workers, par_pc, par_u, par_future,
                   par_overtaken, asyncVars, last_request_time, rate_limit,
                   rlVars>>

AnalyzeParallel == Analyze("parallel", par_results, "call_async")

\* ------------------------------------------- WebsiteChecker.run_async
\* The rest of check_website_async once rate_limit() has returned: the first
\* URL that answers, or the 'N/A' result with status_code None.
RECURSIVE ProbeFrom(_, _)
ProbeFrom(company, u) ==
    IF u > NumCandidates THEN Result(company, NA, None)
    ELSE LET url == CandidateURLs[company][u]
         IN  IF transport[url].ok
             THEN Result(company, url, <<transport[url].status>>)
             ELSE ProbeFrom(company, u + 1)

\* WebsiteChecker(max_concurrent = m).run_async(companies): the constructor,
\* then one check_website_async task per company, gathered.  A task is three
\* steps (enter the async with block, call the rate limiter, leave the
\* block) and the steps of different tasks interleave freely: the event loop
\* switches tasks only at an await that suspends, so its schedules are among
\* the interleavings here.
\* asyncio.Semaphore(m) in __init__ raises ValueError for m < 0.
AsyncRunWith(m) ==
    /\ phase = "call_async"
    /\ max_concurrent' = m
    /\ IF m < 0
       THEN /\ async_outcome' = "ValueError"
            /\ phase' = "raised"
            /\ UNCHANGED <<semaphore, last_request_time, task_pc,
                           task_future>>
       ELSE /\ semaphore' = m
            /\ last_request_time' = 0
            /\ task_pc' = [i \in 1..Len(companies) |-> "created"]
            /\ task_future' = [i \in 1..Len(companies) |-> None]
            /\ phase' = "async"
            /\ async_outcome' = async_outcome
    /\ UNCHANGED <<inputVars, batchVars, task7Vars, elapsedVars, task3Vars,
                   cacheVars, cleanVars, performance, par_outcome, requests,
                   issued, grants, seqVars, parVars, async_results,
                   rate_limit, rlVars>>

AsyncRun == \E m \in 1..MaxConcurrent : AsyncRunWith(m)

\* TaskAcquire that takes a slot without waiting for a free one
TaskAcquireNoWait(i) ==
    /\ phase = "async"
    /\ task_pc[i] = "created"
    /\ semaphore' = semaphore - 1
    /\ task_pc' = [task_pc EXCEPT ![i] = "holding"]
    /\ UNCHANGED <<inputVars, batchVars, task7Vars, elapsedVars, task3Vars,
                   cacheVars, cleanVars, performance, par_outcome, phase,
                   requests, issued, grants, seqVars, parVars, max_concurrent,
                   task_future, async_outcome, async_results,
                   last_request_time, rate_limit, rlVars>>

\* async with self.semaphore: entering takes a slot, or waits for one
TaskAcquire(i) ==
    /\ phase = "async"
    /\ task_pc[i] = "created"
    /\ semaphore > 0
    /\ semaphore' = semaphore - 1
    /\ task_pc' = [task_pc EXCEPT ![i] = "holding"]
    /\ UNCHANGED <<inputVars, batchVars, task7Vars, elapsedVars, task3Vars,
                   cacheVars, cleanVars, performance, par_outcome, phase,
                   requests, issued, grants, seqVars, parVars, max_concurrent,
                   task_future, async_outcome, async_results,
                   last_request_time, rate_limit, rlVars>>

\* await self.rate_limit(): self.rate_limit is the float that __init__
\* stored, and calling it raises TypeError inside the async with block.
TaskRateLimit(i) ==
    /\ phase = "async"
    /\ task_pc[i] = "holding"
    /\ IF SelfLookup("rate_limit") = "method"
       THEN /\ task_future' = [task_future EXCEPT ![i] =
                                  ProbeFrom(companies[i], 1)]
            /\ task_pc' = [task_pc EXCEPT ![i] = "returning"]
       ELSE /\ task_future' = task_future
            /\ task_pc' = [task_pc EXCEPT ![i] = "raising"]
    /\ UNCHANGED <<inputVars, batchVars, task7Vars, elapsedVars, task3Vars,
                   cacheVars, cleanVars, performance, par_outcome, phase,
                   requests, issued, grants, seqVars, parVars, max_concurrent,
                   semaphore, async_outcome, async_results, last_request_time,
                   rate_limit, rlVars>>

\* TaskRelease as acquire() ... release() without try/finally would do it:
\* the slot is freed on a return and kept when an exception leaves the block
TaskReleaseOnReturnOnly(i) ==
    /\ phase = "async"
    /\ task_pc[i] \in {"returning", "raising"}
    /\ semaphore' = IF task_pc[i] = "returning" THEN semaphore + 1
                    ELSE semaphore
    /\ task_pc' = [task_pc EXCEPT ![i] =
                      IF @ = "returning" THEN "returned" ELSE "raised"]
    /\ UNCHANGED <<inputVars, batchVars, task7Vars, elapsedVars, task3Vars,
                   cacheVars, cleanVars, performance, par_outcome, phase,
                   requests, issued, grants, seqVars, parVars, max_concurrent,
                   task_future, async_outcome, async_results,
                   last_request_time, rate_limit, rlVars>>

\* leaving the async with block, by return or by exception, frees the slot
TaskRelease(i) ==
    /\ phase = "async"
    /\ task_pc[i] \in {"returning", "raising"}
    /\ semaphore' = semaphore + 1
    /\ task_pc' = [task_pc EXCEPT ![i] =
                      IF @ = "returning" THEN "returned" ELSE "raised"]
    /\ UNCHANGED <<inputVars, batchVars, task7Vars, elapsedVars, task3Vars,
                   cacheVars, cleanVars, performance, par_outcome, phase,
                   requests, issued, grants, seqVars, parVars, max_concurrent,
                   task_future, async_outcome, async_results,
                   last_request_time, rate_limit, rlVars>>

\* asyncio.gather and asyncio.run: the list of the tasks' values in the order
\* of the companies, or the exception of a task that raised.
AsyncEnd ==
    /\ phase = "async"
    /\ \A i \in DOMAIN task_pc : task_pc[i] \in {"returned", "raised"}
    /\ IF \E i \in DOMAIN task_pc : task_pc[i] = "raised"
       THEN /\ async_outcome' = "TypeError"
            /\ async_results' = async_results
       ELSE /\ async_outcome' = "returned"
            /\ async_results' = task_future
    /\ phase' = IF \E i \in DOMAIN task_pc : task_pc[i] = "raised"
                THEN "raised"
                ELSE "analyze_async"
    /\ UNCHANGED <<inputVars, batchVars, task7Vars, elapsedVars, task3Vars,
                   cacheVars, cleanVars, performance, par_outcome, requests,
                   issued, grants, seqVars, parVars, max_concurrent,
                   semaphore, task_pc, task_future, last_request_time,
                   rate_limit, rlVars>>

\* run_async has returned a list, which is analyzed
AnalyzeAsync == Analyze("async", async_results, "done")

\* main on the companies of companies.txt.  Its third pass never comes to
\* analyze_performance: run_async raises on every list that has a company
\* (line 98), and on the list without companies the first pass has ended
\* main (analyze_performance([]) raises).
Next ==
    \/ SeqGet
    \/ SeqReturn
    \/ AnalyzeSequential
    \/ ParSubmit
    \/ \E i \in DOMAIN par_pc : ParTake(i)
    \/ \E i \in DOMAIN par_pc : ParGet(i)
    \/ ParReturn
    \/ AnalyzeParallel
    \/ AsyncRun
    \/ \E i \in DOMAIN task_pc : TaskAcquire(i)
    \/ \E i \in DOMAIN task_pc : TaskRateLimit(i)
    \/ \E i \in DOMAIN task_pc : TaskRelease(i)
    \/ AsyncEnd

Spec == Init /\ [][Next]_vars

\* The interpreter, the pool's threads and the event loop keep running
\* whatever is ready to run.
SpecFair == Init /\ [][Next]_vars /\ WF_vars(Next)

\* --------------------------------------------- the concurrency bounds
\* check_websites_parallel or WebsiteChecker(...).run_async called first,
\* with any bound, non-positive ones included, on transports whose hosts
\* answer 200 at the first candidate, at the second, or not at all.  The
\* list returned is analyzed, and run_async follows a pool whose list was
\* analyzed without an exception.
MinBound == -1

ConfigTransports ==
    { t \in Transports :
        \A name \in CompanyNames :
            /\ \A u \in 3..NumCandidates : t[CandidateURLs[name][u]].ok
            /\ \A u \in 1..NumCandidates :
                  t[CandidateURLs[name][u]].status \in {0, 200, 500} }

InitConfig ==
    /\ companies \in CompanyLists
    /\ transport \in ConfigTransports
    /\ phase \in {"call_parallel", "call_async"}
    /\ requests = 0
    /\ issued = {}
    /\ performance = NotAnalyzed
    /\ par_outcome = "none"
    /\ grants = <<>>
    /\ seq_i = 1
    /\ seq_u = 1
    /\ seq_results = <<>>
    /\ max_workers = 0
    /\ par_pc = <<>>
    /\ par_u = <<>>
    /\ par_future = <<>>
    /\ par_results = <<>>
    /\ par_overtaken = FALSE
    /\ max_concurrent = 0
    /\ semaphore = 0
    /\ last_request_time = 0
    /\ rate_limit = 1
    /\ task_pc = <<>>
    /\ task_future = <<>>
    /\ async_outcome = "none"
    /\ async_results = <<>>
    /\ now = Epoch
    /\ call_via = "self"
    /\ rl_pc = <<>>
    /\ rl_wake = <<>>
    /\ rl_calls = <<>>
    /\ CleanIdle
    /\ CacheIdle
    /\ Task3Idle
    /\ ElapsedIdle
    /\ Task7Idle
    /\ BatchIdle

ParSubmitAny == \E w \in MinBound..MaxWorkers : ParSubmitWith(w)

AsyncRunAny == \E m \in MinBound..MaxConcurrent : AsyncRunWith(m)

NextConfig ==
    \/ ParSubmitAny
    \/ \E i \in DOMAIN par_pc : ParTake(i)
    \/ \E i \in DOMAIN par_pc : ParGet(i)
    \/ ParReturn
    \/ AnalyzeParallel
    \/ AsyncRunAny
    \/ \E i \in DOMAIN task_pc : TaskAcquire(i)
    \/ \E i \in DOMAIN task_pc : TaskRateLimit(i)
    \/ \E i \in DOMAIN task_pc : TaskRelease(i)
    \/ AsyncEnd
    \/ AnalyzeAsync

SpecConfig == InitConfig /\ [][NextConfig]_vars

\* ----------------------------- clean_company_name, generate_website_urls
\* The batch strategies at rest, while another part of the program runs.
CheckerIdle ==
    /\ companies = <<>>
    /\ transport = [url \in AllURLs |-> Failure]
    /\ phase = "idle"
    /\ requests = 0
    /\ issued = {}
    /\ performance = NotAnalyzed
    /\ par_outcome = "none"
    /\ grants = <<>>
    /\ seq_i = 1
    /\ seq_u = 1
    /\ seq_results = <<>>
    /\ max_workers = 0
    /\ par_pc = <<>>
    /\ par_u = <<>>
    /\ par_future = <<>>
    /\ par_results = <<>>
    /\ par_overtaken = FALSE
    /\ max_concurrent = 0
    /\ semaphore = 0
    /\ last_request_time = 0
    /\ rate_limit = 1
    /\ task_pc = <<>>
    /\ task_future = <<>>
    /\ async_outcome = "none"
    /\ async_results = <<>>
    /\ now = Epoch
    /\ call_via = "self"
    /\ rl_pc = <<>>
    /\ rl_wake = <<>>
    /\ rl_calls = <<>>

InitClean ==
    /\ CheckerIdle
    /\ clean_name \in Names
    /\ clean_pc = "start"
    /\ cleaned = <<>>
    /\ recleaned = <<>>
    /\ urls = <<>>
    /\ CacheIdle
    /\ Task3Idle
    /\ ElapsedIdle
    /\ Task7Idle
    /\ BatchIdle

\* WebsiteChecker.clean_company_name(clean_name)
CleanCall ==
    /\ clean_pc = "start"
    /\ cleaned' = clean_company_name(clean_name)
    /\ clean_pc' = "cleaned"
    /\ UNCHANGED <<checkerVars, batchVars, task7Vars, elapsedVars, task3Vars,
                   cacheVars, clean_name, recleaned, urls>>

\* WebsiteChecker.clean_company_name on the value it returned
CleanAgain ==
    /\ clean_pc = "cleaned"
    /\ recleaned' = clean_company_name(cleaned)
    /\ clean_pc' = "recleaned"
    /\ UNCHANGED <<checkerVars, batchVars, task7Vars, elapsedVars, task3Vars,
                   cacheVars, clean_name, cleaned, urls>>

\* WebsiteChecker().generate_website_urls(clean_name)
GenerateURLs ==
    /\ clean_pc = "recleaned"
    /\ urls' = generate_website_urls(clean_name)
    /\ clean_pc' = "generated"
    /\ UNCHANGED <<checkerVars, batchVars, task7Vars, elapsedVars, task3Vars,
                   cacheVars, clean_name, cleaned, recleaned>>

NextClean ==
    \/ CleanCall
    \/ CleanAgain
    \/ GenerateURLs

SpecClean == InitClean /\ [][NextClean]_vars

\* ------------------------------- the pool and the concurrency limiter
\* check_websites_parallel with a pool larger than the capacity of the
\* semaphore that each WebsiteChecker(timeout=timeout) of
\* check_single_company is constructed with (max_concurrent: int = 10), on
\* as many companies as the largest pool has workers, every one of which
\* answers at its first candidate.
DefaultMaxConcurrent == 10

PoolSizes == 1..(DefaultMaxConcurrent + 1)

PoolCompany == CHOOSE name \in CompanyNames : TRUE

InitPool ==
    /\ companies = [i \in PoolSizes |-> PoolCompany]
    /\ transport \in
          { t \in Transports :
              \A name \in CompanyNames :
                  t[CandidateURLs[name][1]] = Response(200) }
    /\ phase = "call_parallel"
    /\ requests = 0
    /\ issued = {}
    /\ performance = NotAnalyzed
    /\ par_outcome = "none"
    /\ grants = <<>>
    /\ seq_i = 1
    /\ seq_u = 1
    /\ seq_results = <<>>
    /\ max_workers = 0
    /\ par_pc = <<>>
    /\ par_u = <<>>
    /\ par_future = <<>>
    /\ par_results = <<>>
    /\ par_overtaken = FALSE
    /\ max_concurrent = 0
    /\ semaphore = 0
    /\ last_request_time = 0
    /\ rate_limit = 1
    /\ task_pc = <<>>
    /\ task_future = <<>>
    /\ async_outcome = "none"
    /\ async_results = <<>>
    /\ now = Epoch
    /\ call_via = "self"
    /\ rl_pc = <<>>
    /\ rl_wake = <<>>
    /\ rl_calls = <<>>
    /\ CleanIdle
    /\ CacheIdle
    /\ Task3Idle
    /\ ElapsedIdle
    /\ Task7Idle
    /\ BatchIdle

ParSubmitPool == \E w \in PoolSizes : ParSubmitWith(w)

NextPool ==
    \/ ParSubmitPool
    \/ \E i \in DOMAIN par_pc : ParTake(i)
    \/ \E i \in DOMAIN par_pc : ParGet(i)
    \/ ParReturn

SpecPool == InitPool /\ [][NextPool]_vars

\* ------------------------------------------ @lru_cache(maxsize=1000)
\* Calls of the cached clean_company_name by the threads of the pool.  The
\* cache holds up to MaxCacheSize entries (the program's 1000, scaled down)
\* keyed by the argument.  A call looks the argument up: a hit returns the
\* stored value and makes the entry the most recently used; a miss counts,
\* and the thread runs the function, during which other threads make their
\* calls.  When the function returns, the value is stored unless another
\* thread has stored the key meanwhile; storing into a full cache drops the
\* least recently used entry.
CachePool ==
    { <<"A", "b">>, <<"A", "b", " ", "I", "n", "c">>, <<",">>,
      <<"U+00C9", "U+03A3">> }

CacheThreads == 1..MaxWorkers

InitCache ==
    /\ CheckerIdle
    /\ CleanIdle
    /\ cache = <<>>
    /\ cache_running = [t \in CacheThreads |-> <<>>]
    /\ cache_arg = <<>>
    /\ cache_ret = <<>>
    /\ cache_calls = 0
    /\ cache_misses = 0
    /\ cache_hit = FALSE
    /\ Task3Idle
    /\ ElapsedIdle
    /\ Task7Idle
    /\ BatchIdle

Entry(key, value) == [key |-> key, value |-> value]

Hit(c, key) == { i \in DOMAIN c : c[i].key = key }

\* move the i-th entry to the most recently used end
Touch(c, i) ==
    SubSeq(c, 1, i - 1) \o SubSeq(c, i + 1, Len(c)) \o <<c[i]>>

\* CacheInsert that, on a full cache, puts the new key on the entry it
\* reuses and leaves the old value there
CacheInsertStaleValue(c, key, value) ==
    IF Len(c) >= MaxCacheSize
    THEN Append(Tail(c), Entry(key, c[1].value))
    ELSE Append(c, Entry(key, value))

CacheInsert(c, key, value) ==
    IF Len(c) >= MaxCacheSize
    THEN Append(Tail(c), Entry(key, value))
    ELSE Append(c, Entry(key, value))

\* The start of a call by thread t: the lookup, and on a hit the return
CacheLookup(t, name) ==
    /\ cache_running[t] = <<>>
    /\ cache_calls < MaxCacheCalls
    /\ cache_calls' = cache_calls + 1
    /\ IF Hit(cache, name) # {}
       THEN LET i == CHOOSE i \in Hit(cache, name) : TRUE
            IN  /\ cache_arg' = name
                /\ cache_ret' = cache[i].value
                /\ cache' = Touch(cache, i)
                /\ cache_hit' = TRUE
                /\ UNCHANGED <<cache_misses, cache_running>>
       ELSE /\ cache_misses' = cache_misses + 1
            /\ cache_running' = [cache_running EXCEPT ![t] = <<name>>]
            /\ UNCHANGED <<cache, cache_arg, cache_ret, cache_hit>>
    /\ UNCHANGED <<checkerVars, batchVars, task7Vars, elapsedVars, task3Vars,
                   cleanVars>>

\* The end of a call that missed: the function has returned, and its value
\* is stored if the key is still not in the cache
CacheStore(t) ==
    /\ cache_running[t] # <<>>
    /\ LET name == cache_running[t][1]
           value == clean_company_name(name)
       IN  /\ cache' = IF Hit(cache, name) # {} THEN cache
                       ELSE CacheInsert(cache, name, value)
           /\ cache_arg' = name
           /\ cache_ret' = value
    /\ cache_hit' = FALSE
    /\ cache_running' = [cache_running EXCEPT ![t] = <<>>]
    /\ UNCHANGED <<cache_calls, cache_misses>>
    /\ UNCHANGED <<checkerVars, batchVars, task7Vars, elapsedVars, task3Vars,
                   cleanVars>>

NextCache ==
    \E t \in CacheThreads :
        \/ \E name \in CachePool : CacheLookup(t, name)
        \/ CacheStore(t)

SpecCache == InitCache /\ [][NextCache]_vars

\* ---------------------------------- task3_parallel_sequential_write
\* The lines of the input file: text with blanks around it, a blank line,
\* and, as the last line only, a line without its newline.
TerminatedLines ==
    { <<"a", "\n">>, <<" ", "b", "\t", "\n">>, <<"\n">> }

UnterminatedLines == { <<" ", "c">> }

Files ==
    { f \in UNION { [1..n -> TerminatedLines \cup UnterminatedLines] :
                      n \in 0..MaxLines } :
        \A i \in 1..(Len(f) - 1) : f[i] \in TerminatedLines }

Min(a, b) == IF a <= b THEN a ELSE b

\* str.strip(): the characters that count as whitespace
LineWhitespace == Whitespace

\* [line.strip() + '\n' for line in chunk]
process_chunk(chunk) ==
    [i \in DOMAIN chunk |-> Strip(chunk[i], LineWhitespace) \o <<"\n">>]

\* Chunks without the shorter chunk that holds the remainder
ChunksOfFullSizeOnly(lines, chunk_size) ==
    [k \in 1..(Len(lines) \div chunk_size) |->
        SubSeq(lines, (k - 1) * chunk_size + 1, k * chunk_size)]

\* [lines[i:i+chunk_size] for i in range(0, len(lines), chunk_size)]
Chunks(lines, chunk_size) ==
    [k \in 1..((Len(lines) + chunk_size - 1) \div chunk_size) |->
        SubSeq(lines, (k - 1) * chunk_size + 1,
               Min(k * chunk_size, Len(lines)))]

\* the characters of the strings of a list, one string after the other
RECURSIVE Concat(_)
Concat(strings) ==
    IF strings = <<>> THEN <<>> ELSE Head(strings) \o Concat(Tail(strings))

InitTask3 ==
    /\ CheckerIdle
    /\ CleanIdle
    /\ CacheIdle
    /\ t3_lines \in Files
    /\ t3_cpu \in 1..MaxCpu
    /\ t3_pc = "start"
    /\ t3_num_processes = 0
    /\ t3_chunks = <<>>
    /\ t3_chunk_pc = <<>>
    /\ t3_processed = <<>>
    /\ t3_finished = <<>>
    /\ t3_output = <<>>
    /\ ElapsedIdle
    /\ Task7Idle
    /\ BatchIdle

\* From readlines to executor.map, which submits process_chunk for every
\* chunk.  On a file without lines num_processes is 0 and the division
\* raises ZeroDivisionError.
T3Split ==
    /\ t3_pc = "start"
    /\ t3_num_processes' = Min(t3_cpu, Len(t3_lines))
    /\ IF t3_num_processes' = 0
       THEN /\ t3_pc' = "ZeroDivisionError"
            /\ UNCHANGED <<t3_chunks, t3_chunk_pc, t3_processed>>
       ELSE LET chunk_size == Len(t3_lines) \div t3_num_processes'
                chunks == Chunks(t3_lines, chunk_size)
            IN  /\ t3_chunks' = chunks
                /\ t3_chunk_pc' = [k \in DOMAIN chunks |-> "queued"]
                /\ t3_processed' = [k \in DOMAIN chunks |-> None]
                /\ t3_pc' = "mapping"
    /\ UNCHANGED <<checkerVars, batchVars, task7Vars, elapsedVars, cleanVars,
                   cacheVars, t3_lines, t3_cpu, t3_finished, t3_output>>

T3Running == { k \in DOMAIN t3_chunk_pc : t3_chunk_pc[k] = "running" }

\* An idle worker process takes the oldest queued chunk.
T3Take(k) ==
    /\ t3_pc = "mapping"
    /\ t3_chunk_pc[k] = "queued"
    /\ \A j \in 1..(k - 1) : t3_chunk_pc[j] # "queued"
    /\ Cardinality(T3Running) < t3_num_processes
    /\ t3_chunk_pc' = [t3_chunk_pc EXCEPT ![k] = "running"]
    /\ UNCHANGED <<checkerVars, batchVars, task7Vars, elapsedVars, cleanVars,
                   cacheVars, t3_lines, t3_cpu, t3_pc, t3_num_processes,
                   t3_chunks, t3_processed, t3_finished, t3_output>>

\* A worker process returns process_chunk of its chunk.
T3Process(k) ==
    /\ t3_pc = "mapping"
    /\ t3_chunk_pc[k] = "running"
    /\ t3_chunk_pc' = [t3_chunk_pc EXCEPT ![k] = "done"]
    /\ t3_processed' =
          [t3_processed EXCEPT ![k] = process_chunk(t3_chunks[k])]
    /\ t3_finished' = Append(t3_finished, k)
    /\ UNCHANGED <<checkerVars, batchVars, task7Vars, elapsedVars, cleanVars,
                   cacheVars, t3_lines, t3_cpu, t3_pc, t3_num_processes,
                   t3_chunks, t3_output>>

\* list(executor.map(...)) has every value, in the order of the chunks;
\* outfile.writelines(chunk) for each of them.
T3Write ==
    /\ t3_pc = "mapping"
    /\ \A k \in DOMAIN t3_chunk_pc : t3_chunk_pc[k] = "done"
    /\ t3_output' =
          Concat([k \in DOMAIN t3_processed |-> Concat(t3_processed[k])])
    /\ t3_pc' = "written"
    /\ UNCHANGED <<checkerVars, batchVars, task7Vars, elapsedVars, cleanVars,
                   cacheVars, t3_lines, t3_cpu, t3_num_processes, t3_chunks,
                   t3_chunk_pc, t3_processed, t3_finished>>

NextTask3 ==
    \/ T3Split
    \/ \E k \in DOMAIN t3_chunk_pc : T3Take(k)
    \/ \E k \in DOMAIN t3_chunk_pc : T3Process(k)
    \/ T3Write

SpecTask3 == InitTask3 /\ [][NextTask3]_vars

\* ------------------------------------------------------ 'time_taken'
\* The sequential and the pooled strategy on a clock.  A GET takes 1 to
\* MaxDuration ticks; everything else takes no time.  The sequential loop
\* is one thread; the pool has max_workers threads that take the queued
\* companies oldest first.  A company's first answering candidate is its
\* first, its second, or none of them.
ElapsedProfiles == {1, 2, NumCandidates + 1}

InitElapsed ==
    /\ CheckerIdle
    /\ CleanIdle
    /\ CacheIdle
    /\ Task3Idle
    /\ el_strategy \in {"sequential", "parallel"}
    /\ el_workers \in 1..MaxWorkers
    /\ el_strategy = "sequential" => el_workers = 1
    /\ el_first_ok \in UNION { [1..n -> ElapsedProfiles] :
                                 n \in 1..MaxCompanies }
    /\ el_now = Epoch
    /\ el_start_time = Epoch
    /\ el_pc = [i \in DOMAIN el_first_ok |-> "queued"]
    /\ el_u = [i \in DOMAIN el_first_ok |-> 1]
    /\ el_get_start = [i \in DOMAIN el_first_ok |-> 0]
    /\ el_began = [i \in DOMAIN el_first_ok |-> 0]
    /\ el_ended = [i \in DOMAIN el_first_ok |-> 0]
    /\ el_time_taken = [i \in DOMAIN el_first_ok |-> None]
    /\ Task7Idle
    /\ BatchIdle

ElInFlight == { i \in DOMAIN el_pc : el_pc[i] = "get" }

\* A free thread takes the oldest company not yet started and issues the GET
\* for its first URL.
ElBegin(i) ==
    /\ el_pc[i] = "queued"
    /\ \A j \in 1..(i - 1) : el_pc[j] # "queued"
    /\ Cardinality(ElInFlight) < el_workers
    /\ el_pc' = [el_pc EXCEPT ![i] = "get"]
    /\ el_get_start' = [el_get_start EXCEPT ![i] = el_now]
    /\ el_began' = [el_began EXCEPT ![i] = el_now]
    /\ UNCHANGED <<checkerVars, batchVars, task7Vars, cleanVars, cacheVars,
                   task3Vars, el_strategy, el_workers, el_first_ok, el_now,
                   el_start_time, el_u, el_ended, el_time_taken>>

\* 'time_taken' of a result built at this moment: response.elapsed of the
\* answering GET in check_websites_sequential, time.time() - start_time with
\* the start_time of the whole call in check_websites_parallel
TimeTaken(i) ==
    IF el_strategy = "sequential"
    THEN <<el_now - el_get_start[i]>>
    ELSE <<el_now - el_start_time>>

\* The GET in flight ends.  A response: the result is built and the company
\* is done.  A failure: the next URL is tried at once; after the last URL
\* the sequential loop goes on without a result and check_single_company
\* returns the 'N/A' result.
ElEnd(i) ==
    /\ el_pc[i] = "get"
    /\ el_now > el_get_start[i]
    /\ IF el_u[i] = el_first_ok[i]
       THEN /\ el_time_taken' = [el_time_taken EXCEPT ![i] = TimeTaken(i)]
            /\ el_pc' = [el_pc EXCEPT ![i] = "done"]
            /\ el_ended' = [el_ended EXCEPT ![i] = el_now]
            /\ UNCHANGED <<el_u, el_get_start>>
       ELSE IF el_u[i] < NumCandidates
       THEN /\ el_u' = [el_u EXCEPT ![i] = @ + 1]
            /\ el_get_start' = [el_get_start EXCEPT ![i] = el_now]
            /\ UNCHANGED <<el_pc, el_ended, el_time_taken>>
       ELSE /\ el_time_taken' =
                  [el_time_taken EXCEPT ![i] =
                      IF el_strategy = "sequential" THEN None
                      ELSE TimeTaken(i)]
            /\ el_pc' = [el_pc EXCEPT ![i] = "done"]
            /\ el_ended' = [el_ended EXCEPT ![i] = el_now]
            /\ UNCHANGED <<el_u, el_get_start>>
    /\ UNCHANGED <<checkerVars, batchVars, task7Vars, cleanVars, cacheVars,
                   task3Vars, el_strategy, el_workers, el_first_ok, el_now,
                   el_start_time, el_began>>

\* Time passes while a GET is in flight.
ElTick ==
    /\ ElInFlight # {}
    /\ \A i \in ElInFlight : el_now - el_get_start[i] < MaxDuration
    /\ el_now' = el_now + 1
    /\ UNCHANGED <<checkerVars, batchVars, task7Vars, cleanVars, cacheVars,
                   task3Vars, el_strategy, el_workers, el_first_ok,
                   el_start_time, el_pc, el_u, el_get_start, el_began,
                   el_ended, el_time_taken>>

NextElapsed ==
    \/ \E i \in DOMAIN el_pc : ElBegin(i)
    \/ \E i \in DOMAIN el_pc : ElEnd(i)
    \/ ElTick

SpecElapsed == InitElapsed /\ [][NextElapsed]_vars

\* --------------------------------------- task7_threaded_queue_write
\* The files of up to MaxQueued lines, written by 1 to MaxThreads workers.
\* A worker's loop is four steps, and the steps of the workers interleave:
\* the empty() check, the get(), taking file_lock, and the append that ends
\* with the release of the lock and task_done().
Task7Files == { f \in Files : Len(f) <= MaxQueued }

\* What the output file holds when the function is called: the file is
\* opened for appending and never truncated, so it may be absent or empty,
\* hold a line of some other origin, or hold what an earlier call on the
\* same input wrote.
ExistingOutputs(lines) ==
    { <<>>, << <<"O", "L", "D", "\n">> >>, process_chunk(lines) }

InitTask7 ==
    /\ CheckerIdle
    /\ CleanIdle
    /\ CacheIdle
    /\ Task3Idle
    /\ ElapsedIdle
    /\ t7_lines \in Task7Files
    /\ t7_num_threads \in 1..MaxThreads
    /\ t7_main = "start"
    /\ t7_queue = <<>>
    /\ t7_pc = <<>>
    /\ t7_line = <<>>
    /\ t7_lock = 0
    /\ t7_output \in ExistingOutputs(t7_lines)
    /\ BatchIdle

\* line_queue.put(line.strip()) for every line, then the threads are
\* started.
T7Start ==
    /\ t7_main = "start"
    /\ t7_queue' = [i \in DOMAIN t7_lines |->
                       Strip(t7_lines[i], LineWhitespace)]
    /\ t7_pc' = [w \in 1..t7_num_threads |-> "check"]
    /\ t7_line' = [w \in 1..t7_num_threads |-> <<>>]
    /\ t7_main' = "joining"
    /\ UNCHANGED <<checkerVars, batchVars, cleanVars, cacheVars, task3Vars,
                   elapsedVars, t7_lines, t7_num_threads, t7_lock, t7_output>>

\* if line_queue.empty(): break
T7Check(w) ==
    /\ t7_pc[w] = "check"
    /\ t7_pc' = [t7_pc EXCEPT ![w] =
                    IF t7_queue = <<>> THEN "exit" ELSE "get"]
    /\ UNCHANGED <<checkerVars, batchVars, cleanVars, cacheVars, task3Vars,
                   elapsedVars, t7_lines, t7_num_threads, t7_main, t7_queue,
                   t7_line, t7_lock, t7_output>>

\* line = line_queue.get(): waits while the queue is empty
T7Get(w) ==
    /\ t7_pc[w] = "get"
    /\ t7_queue # <<>>
    /\ t7_line' = [t7_line EXCEPT ![w] = Head(t7_queue)]
    /\ t7_queue' = Tail(t7_queue)
    /\ t7_pc' = [t7_pc EXCEPT ![w] = "lock"]
    /\ UNCHANGED <<checkerVars, batchVars, cleanVars, cacheVars, task3Vars,
                   elapsedVars, t7_lines, t7_num_threads, t7_main, t7_lock,
                   t7_output>>

\* with file_lock: waits while another worker holds the lock
T7Lock(w) ==
    /\ t7_pc[w] = "lock"
    /\ t7_lock = 0
    /\ t7_lock' = w
    /\ t7_pc' = [t7_pc EXCEPT ![w] = "append"]
    /\ UNCHANGED <<checkerVars, batchVars, cleanVars, cacheVars, task3Vars,
                   elapsedVars, t7_lines, t7_num_threads, t7_main, t7_queue,
                   t7_line, t7_output>>

\* outfile.write(line + '\n') on the file opened for appending, the end of
\* the with blocks, and line_queue.task_done()
T7Append(w) ==
    /\ t7_pc[w] = "append"
    /\ t7_output' = Append(t7_output, t7_line[w] \o <<"\n">>)
    /\ t7_lock' = 0
    /\ t7_pc' = [t7_pc EXCEPT ![w] = "check"]
    /\ UNCHANGED <<checkerVars, batchVars, cleanVars, cacheVars, task3Vars,
                   elapsedVars, t7_lines, t7_num_threads, t7_main, t7_queue,
                   t7_line>>

\* for t in threads: t.join() has returned for every worker
T7Join ==
    /\ t7_main = "joining"
    /\ \A w \in DOMAIN t7_pc : t7_pc[w] = "exit"
    /\ t7_main' = "returned"
    /\ UNCHANGED <<checkerVars, batchVars, cleanVars, cacheVars, task3Vars,
                   elapsedVars, t7_lines, t7_num_threads, t7_queue, t7_pc,
                   t7_line, t7_lock, t7_output>>

T7Worker(w) ==
    \/ T7Check(w)
    \/ T7Get(w)
    \/ T7Lock(w)
    \/ T7Append(w)

NextTask7 ==
    \/ T7Start
    \/ \E w \in DOMAIN t7_pc : T7Check(w)
    \/ \E w \in DOMAIN t7_pc : T7Get(w)
    \/ \E w \in DOMAIN t7_pc : T7Lock(w)
    \/ \E w \in DOMAIN t7_pc : T7Append(w)
    \/ T7Join

SpecTask7 == InitTask7 /\ [][NextTask7]_vars

\* Every thread that can take a step eventually takes one.
FairTask7 ==
    /\ WF_vars(T7Start)
    /\ WF_vars(T7Join)
    /\ \A w \in 1..MaxThreads : WF_vars(w \in DOMAIN t7_pc /\ T7Worker(w))

SpecTask7Fair == InitTask7 /\ [][NextTask7]_vars /\ FairTask7

\* ------------------------- task1_sequential_write, task2_batch_write
\* The two functions are run one after the other on the same clean file,
\* each writing an output file of its own that it opens with 'w'.
InitBatch ==
    /\ CheckerIdle
    /\ CleanIdle
    /\ CacheIdle
    /\ Task3Idle
    /\ ElapsedIdle
    /\ Task7Idle
    /\ b_lines \in Files
    /\ b_batch_size \in 1..MaxBatch
    /\ b_pc = "task1"
    /\ b_pos = 0
    /\ b_out1 = <<>>
    /\ b_batch = <<>>
    /\ b_out2 = <<>>

\* task1: outfile.write(line.strip() + '\n') for the next line
T1Write ==
    /\ b_pc = "task1"
    /\ b_pos < Len(b_lines)
    /\ b_pos' = b_pos + 1
    /\ b_out1' = b_out1 \o Strip(b_lines[b_pos + 1], LineWhitespace)
                        \o <<"\n">>
    /\ UNCHANGED <<checkerVars, cleanVars, cacheVars, task3Vars, elapsedVars,
                   task7Vars, b_lines, b_batch_size, b_pc, b_batch, b_out2>>

\* task1 returns at the end of the file; task2 opens both files
T1Return ==
    /\ b_pc = "task1"
    /\ b_pos = Len(b_lines)
    /\ b_pc' = "task2"
    /\ b_pos' = 0
    /\ b_batch' = <<>>
    /\ b_out2' = <<>>
    /\ UNCHANGED <<checkerVars, cleanVars, cacheVars, task3Vars, elapsedVars,
                   task7Vars, b_lines, b_batch_size, b_out1>>

\* outfile.writelines(batch)
Writelines(out, batch) == out \o Concat(batch)

\* task2: one pass of the loop: the line joins the batch, and a batch that
\* has reached batch_size is written and emptied
T2Line ==
    /\ b_pc = "task2"
    /\ b_pos < Len(b_lines)
    /\ b_pos' = b_pos + 1
    /\ LET batch == Append(b_batch,
                           Strip(b_lines[b_pos + 1], LineWhitespace)
                              \o <<"\n">>)
       IN  IF Len(batch) >= b_batch_size
           THEN /\ b_out2' = Writelines(b_out2, batch)
                /\ b_batch' = <<>>
           ELSE /\ b_batch' = batch
                /\ UNCHANGED b_out2
    /\ UNCHANGED <<checkerVars, cleanVars, cacheVars, task3Vars, elapsedVars,
                   task7Vars, b_lines, b_batch_size, b_pc, b_out1>>

\* T2Return that leaves the remaining lines of the batch unwritten
T2ReturnNoFlush ==
    /\ b_pc = "task2"
    /\ b_pos = Len(b_lines)
    /\ b_pc' = "done"
    /\ b_batch' = <<>>
    /\ UNCHANGED <<checkerVars, cleanVars, cacheVars, task3Vars, elapsedVars,
                   task7Vars, b_lines, b_batch_size, b_pos, b_out1, b_out2>>

\* task2 at the end of the file: if batch: outfile.writelines(batch)
T2Return ==
    /\ b_pc = "task2"
    /\ b_pos = Len(b_lines)
    /\ b_pc' = "done"
    /\ b_out2' = IF b_batch # <<>> THEN Writelines(b_out2, b_batch)
                                   ELSE b_out2
    /\ UNCHANGED <<checkerVars, cleanVars, cacheVars, task3Vars, elapsedVars,
                   task7Vars, b_lines, b_batch_size, b_pos, b_out1, b_batch>>

NextBatch ==
    \/ T1Write
    \/ T1Return
    \/ T2Line
    \/ T2Return

SpecBatch == InitBatch /\ [][NextBatch]_vars

\* ------------------------------------------ WebsiteChecker.rate_limit
\* Callers of the rate limiter of one WebsiteChecker, each calling it up to
\* MaxCalls times, one call after the other.  The callers are coroutines of
\* one event loop: a caller runs from one await to the next.
InitRL ==
    /\ companies = <<>>
    /\ transport = [url \in AllURLs |-> Failure]
    /\ phase = "rate_limiter"
    /\ requests = 0
    /\ issued = {}
    /\ performance = NotAnalyzed
    /\ par_outcome = "none"
    /\ grants = <<>>
    /\ seq_i = 1
    /\ seq_u = 1
    /\ seq_results = <<>>
    /\ max_workers = 0
    /\ par_pc = <<>>
    /\ par_u = <<>>
    /\ par_future = <<>>
    /\ par_results = <<>>
    /\ par_overtaken = FALSE
    /\ max_concurrent = MaxConcurrent
    /\ semaphore = MaxConcurrent
    /\ last_request_time = 0
    /\ rate_limit \in 1..MaxRateLimit
    /\ task_pc = <<>>
    /\ task_future = <<>>
    /\ async_outcome = "none"
    /\ async_results = <<>>
    /\ now = Epoch
    /\ call_via \in {"self", "class"}
    /\ \E n \in 1..MaxCallers :
          /\ rl_pc = [c \in 1..n |-> "idle"]
          /\ rl_wake = [c \in 1..n |-> 0]
          /\ rl_calls = [c \in 1..n |-> 0]
    /\ CleanIdle
    /\ CacheIdle
    /\ Task3Idle
    /\ ElapsedIdle
    /\ Task7Idle
    /\ BatchIdle

\* self.last_request_time = time.time(), and the coroutine returns
Grant(c) ==
    /\ last_request_time' = now
    /\ grants' = Append(grants, now)
    /\ rl_calls' = [rl_calls EXCEPT ![c] = @ + 1]
    /\ rl_pc' = [rl_pc EXCEPT ![c] = "idle"]

\* A call, up to the first await.  checker.rate_limit() calls the float and
\* raises TypeError; WebsiteChecker.rate_limit(checker) runs the function:
\* it reads the clock and last_request_time and either sleeps for the rest
\* of the interval or stores the time and returns at once.
RateLimitCall(c) ==
    /\ phase = "rate_limiter"
    /\ rl_pc[c] = "idle"
    /\ rl_calls[c] < MaxCalls
    /\ IF call_via = "self" /\ SelfLookup("rate_limit") # "method"
       THEN /\ rl_pc' = [rl_pc EXCEPT ![c] = "TypeError"]
            /\ UNCHANGED <<last_request_time, grants, rl_calls, rl_wake>>
       ELSE LET current_time == now
                elapsed == current_time - last_request_time
            IN  IF elapsed < rate_limit
                THEN /\ rl_pc' = [rl_pc EXCEPT ![c] = "sleeping"]
                     /\ rl_wake' = [rl_wake EXCEPT ![c] =
                                       now + (rate_limit - elapsed)]
                     /\ UNCHANGED <<last_request_time, grants, rl_calls>>
                ELSE /\ Grant(c)
                     /\ rl_wake' = rl_wake
    /\ UNCHANGED <<inputVars, batchVars, task7Vars, elapsedVars, task3Vars,
                   cacheVars, cleanVars, performance, par_outcome, phase,
                   requests, issued, seqVars, parVars, asyncVars, rate_limit,
                   now, call_via>>

\* asyncio.sleep(rate_limit - elapsed) is over: the rest of the function
RateLimitWake(c) ==
    /\ phase = "rate_limiter"
    /\ rl_pc[c] = "sleeping"
    /\ now >= rl_wake[c]
    /\ Grant(c)
    /\ UNCHANGED <<inputVars, batchVars, task7Vars, elapsedVars, task3Vars,
                   cacheVars, cleanVars, performance, par_outcome, phase,
                   requests, issued, seqVars, parVars, asyncVars, rate_limit,
                   now, call_via, rl_wake>>

\* time passes
Tick ==
    /\ phase = "rate_limiter"
    /\ now < Epoch + MaxClock
    /\ now' = now + 1
    /\ UNCHANGED <<inputVars, batchVars, task7Vars, elapsedVars, task3Vars,
                   cacheVars, cleanVars, performance, par_outcome, phase,
                   requests, issued, grants, seqVars, parVars, asyncVars,
                   last_request_time, rate_limit, call_via, rl_pc, rl_wake,
                   rl_calls>>

NextRL ==
    \/ \E c \in DOMAIN rl_pc : RateLimitCall(c)
    \/ \E c \in DOMAIN rl_pc : RateLimitWake(c)
    \/ Tick

SpecRL == InitRL /\ [][NextRL]_vars

\* ================================================================ claims
URLsOf(company) == CandidateURLs[company]

Responds(company) ==
    \E u \in 1..NumCandidates : transport[URLsOf(company)[u]].ok

\* the first candidate, in generation order, that returns a response
FirstResponder(company) ==
    CHOOSE u \in 1..NumCandidates :
        /\ transport[URLsOf(company)[u]].ok
        /\ \A v \in 1..(u - 1) : ~transport[URLsOf(company)[v]].ok

ExpectedResult(company) ==
    LET url == URLsOf(company)[FirstResponder(company)]
    IN  Result(company, url, <<transport[url].status>>)

\* run_async has returned or raised
AsyncEnded == async_outcome # "none"

\* check_websites_parallel has returned its list
ParReturned == par_outcome = "returned"

\* check_websites_sequential has returned its list
SeqReturned == phase \notin {"idle", "sequential"}

Range(f) == { f[i] : i \in DOMAIN f }

CountOf(name, results) ==
    Cardinality({ i \in DOMAIN results : results[i].original_name = name })

OnePerCompany(results) ==
    /\ Len(results) = Len(companies)
    /\ \A name \in CompanyNames : CountOf(name, results) =
          Cardinality({ i \in DOMAIN companies : companies[i] = name })

\* C1: each of the three strategies returns a result list holding exactly
\* one result per input company, companies whose candidates all fail included.
C1_OneResultPerCompany ==
    /\ SeqReturned => OnePerCompany(seq_results)
    /\ ParReturned => OnePerCompany(par_results)
    /\ AsyncEnded => async_outcome = "returned" /\ OnePerCompany(async_results)

\* the results of the companies that have a responding candidate, in order
RECURSIVE ExpectedOfResponding(_)
ExpectedOfResponding(cs) ==
    IF cs = <<>> THEN <<>>
    ELSE IF Responds(Head(cs))
         THEN <<ExpectedResult(Head(cs))>> \o ExpectedOfResponding(Tail(cs))
         ELSE ExpectedOfResponding(Tail(cs))

ReportsFirstResponder(r) ==
    Responds(r.original_name) => r = ExpectedResult(r.original_name)

\* C2: whenever a probe of a company with a responding candidate has produced
\* its result, the result's url is the first candidate in generation order
\* that returned a response and its status_code is that response's status;
\* the sequential and the parallel strategy return exactly these results for
\* the companies that have a responding candidate.
C2_FirstResponderReported ==
    /\ \A r \in Range(seq_results) : ReportsFirstResponder(r)
    /\ \A r \in Range(par_future) \ {None} : ReportsFirstResponder(r)
    /\ \A r \in Range(task_future) \ {None} : ReportsFirstResponder(r)
    /\ \A r \in Range(async_results) : ReportsFirstResponder(r)
    /\ SeqReturned => seq_results = ExpectedOfResponding(companies)
    /\ ParReturned =>
          /\ Len(par_results) = Len(companies)
          /\ \A i \in DOMAIN companies :
                Responds(companies[i]) =>
                    par_results[i] = ExpectedResult(companies[i])

\* a company whose first two candidates fail and whose third answers 404,
\* reported by the sequential and by the parallel strategy
C2_Witness ==
    /\ ParReturned
    /\ \E i \in DOMAIN companies :
          /\ FirstResponder(companies[i]) = 3
          /\ Responds(companies[i])
          /\ par_results[i].url = URLsOf(companies[i])[3]
          /\ par_results[i].status_code = <<404>>
          /\ par_results[i] \in Range(seq_results)

ExhaustedResult(company) == Result(company, NA, None)

ExhaustedReported(results) ==
    \A i \in DOMAIN companies :
        ~Responds(companies[i]) =>
            ExhaustedResult(companies[i]) \in Range(results)

\* C3: in every strategy, a company all of whose candidates fail gets a result
\* with url 'N/A' (no chosen URL) and status_code None.
C3_ExhaustedResult ==
    /\ SeqReturned => ExhaustedReported(seq_results)
    /\ ParReturned => ExhaustedReported(par_results)
    /\ AsyncEnded => async_outcome = "returned" /\ ExhaustedReported(async_results)

\* company -> (succeeded, status_code)
MappingOf(results) ==
    { <<r.original_name, r.url # NA, r.status_code>> : r \in Range(results) }

\* C4: on one company list and one deterministic transport the three
\* strategies return the same mapping from company to (succeeded,
\* status_code).
C4_StrategiesAgree ==
    /\ ParReturned => MappingOf(seq_results) = MappingOf(par_results)
    /\ AsyncEnded =>
          /\ async_outcome = "returned"
          /\ MappingOf(async_results) = MappingOf(par_results)

SlotHolders ==
    { i \in DOMAIN task_pc : task_pc[i] \in {"holding", "returning", "raising"} }

\* C5: in the async strategy the number of probes holding a concurrency slot
\* never exceeds max_concurrent.
C5_SlotsBounded ==
    (phase = "async" \/ AsyncEnded) => Cardinality(SlotHolders) <= max_concurrent

\* every slot is held while another probe waits for one
C5_Witness ==
    /\ phase = "async"
    /\ Cardinality(SlotHolders) = max_concurrent
    /\ \E i \in DOMAIN task_pc : task_pc[i] = "created"

GrantsSpaced ==
    \A k \in 1..(Len(grants) - 1) : grants[k + 1] - grants[k] >= rate_limit

\* C6: with several callers of the rate limiter, two consecutive grants are
\* at least rate_limit apart.
C6_ConcurrentGrantsSpaced ==
    phase = "rate_limiter" => GrantsSpaced

\* C7: a single caller calling the rate limiter of a WebsiteChecker again and
\* again: every call returns normally and consecutive grants are at least
\* rate_limit apart.
C7_SequentialAcquire ==
    (phase = "rate_limiter" /\ DOMAIN rl_pc = {1} /\ call_via = "self") =>
        /\ rl_pc[1] # "TypeError"
        /\ GrantsSpaced

\* C8: every GET issued, in any strategy, is preceded by a grant of the rate
\* limiter of its own: at no time have more GETs been issued than grants given.
C8_EveryGetGranted ==
    requests <= Len(grants)

RespondingReported(results) ==
    \A i \in DOMAIN companies :
        Responds(companies[i]) =>
            ExpectedResult(companies[i]) \in Range(results)

\* C9: on a company list in which some company has only failing candidates,
\* each strategy returns normally, with a result for every other company.
C9_BatchNeverAborts ==
    (\E i \in DOMAIN companies : ~Responds(companies[i])) =>
        /\ SeqReturned => RespondingReported(seq_results)
        /\ ParReturned => RespondingReported(par_results)
        /\ AsyncEnded =>
              /\ async_outcome = "returned"
              /\ RespondingReported(async_results)

\* C10: a probe that has left the async with block, by return or by
\* exception, holds no slot: the free slots and the slots of the probes still
\* inside the block add up to max_concurrent, and when the batch run is over
\* the semaphore is back at max_concurrent.
C10_SlotsReleased ==
    /\ (phase = "async" \/ AsyncEnded) =>
          semaphore + Cardinality(SlotHolders) = max_concurrent
    /\ AsyncEnded => semaphore = max_concurrent

\* a batch run of two or more probes, each of which took a slot and left the
\* block by the exception, is over
C10_Witness ==
    /\ AsyncEnded
    /\ Len(companies) >= 2
    /\ \A i \in DOMAIN task_pc : task_pc[i] = "raised"
    /\ semaphore = max_concurrent

\* the GETs issued between this state and the next
NewlyIssued == issued' \ issued

\* C11: within one company the candidate URLs are attempted strictly in
\* generation order, in every strategy: a GET for candidate u is issued only
\* after the GETs for candidates 1..u-1 of that company were issued and
\* failed, so no GET follows a response and no candidate is skipped or
\* repeated.
C11_AttemptsOrdered ==
    [][\A g \in NewlyIssued :
          /\ g \notin issued
          /\ \A v \in 1..(g.u - 1) :
                /\ Get(g.strategy, g.i, v) \in issued
                /\ ~transport[URLsOf(companies[g.i])[v]].ok]_vars

\* both the sequential and the pooled strategy have gone through the first
\* two candidates of a company and issued the GET for its third
C11_Witness ==
    \E i \in DOMAIN companies :
        /\ Get("sequential", i, 3) \in issued
        /\ Get("parallel", i, 3) \in issued

\* the list that a strategy returned
ResultsOf(strategy) ==
    IF strategy = "sequential" THEN seq_results
    ELSE IF strategy = "parallel" THEN par_results ELSE async_results

\* the results whose company had a candidate that returned an HTTP response
Responded(results) ==
    { i \in DOMAIN results : Responds(results[i].original_name) }

MetricsRight(metrics, results) ==
    /\ metrics.raised = ""
    /\ metrics.total_companies = Len(results)
    /\ metrics.successful_checks = Cardinality(Responded(results))
    /\ metrics.success_rate[1] * metrics.total_companies =
          100 * metrics.successful_checks * metrics.success_rate[2]

\* C12: on every non-empty list that a strategy returned, analyze_performance
\* returns normally; total_companies is the length of the list, exhausted
\* results included; successful_checks is the number of results whose probe
\* got an HTTP response, whatever its status code; and success_rate is
\* 100 * successful_checks / total_companies.
C12_MetricsOfNonEmpty ==
    \A s \in Strategies :
        (performance[s] # None /\ ResultsOf(s) # <<>>) =>
            MetricsRight(performance[s], ResultsOf(s))

\* the pooled strategy's list, holding a response with status 404 and an
\* exhausted result, has been analyzed
C12_Witness ==
    /\ performance["parallel"] # None
    /\ \E i \in DOMAIN par_results : par_results[i].status_code = <<404>>
    /\ \E i \in DOMAIN par_results : par_results[i].url = NA

\* C13: on an empty list analyze_performance reports the condition NoData;
\* it does not end in a division by zero.
C13_EmptyReportsNoData ==
    \A s \in Strategies :
        (performance[s] # None /\ ResultsOf(s) = <<>>) =>
            performance[s].raised = "NoData"

\* check_websites_parallel has been called
ParCalled == phase = "parallel" \/ par_outcome # "none"

\* WebsiteChecker(...).run_async has been called
AsyncCalled == phase = "async" \/ AsyncEnded

\* C14: a strategy given a non-positive concurrency bound fails with a
\* configuration error before any probe is started: no probe of the pooled
\* strategy is ever submitted under max_workers <= 0, and no probe task of
\* WebsiteChecker is ever created under max_concurrent <= 0.
C14_NonPositiveBoundRejected ==
    /\ (ParCalled /\ max_workers <= 0) =>
          par_outcome = "ValueError" /\ par_pc = <<>>
    /\ (AsyncCalled /\ max_concurrent <= 0) =>
          async_outcome = "ValueError" /\ task_pc = <<>>

\* C15: clean_company_name is idempotent: cleaning a cleaned name returns it
\* unchanged, for every name built of words, corporate suffixes, punctuation
\* and spaces.
C15_CleanIdempotent ==
    clean_pc \in {"recleaned", "generated"} => recleaned = cleaned

\* C16: the suffix patterns are each applied once, in the order of the list,
\* and one call strips both suffixes of a name that ends in two stacked
\* suffixes: "Ab Corporation Ltd" cleans to "Ab".
C16_StackedSuffixesStripped ==
    \A s1 \in SuffixTokens, s2 \in SuffixTokens :
        (clean_pc \in {"cleaned", "recleaned", "generated"}
            /\ clean_name = <<"A", "b">> \o s1 \o s2) =>
                cleaned = <<"A", "b">>

\* the lower-cased, space-free cleaned name
NormalizedHost == Delete(Lower(cleaned), {" "})

\* C18: generate_website_urls returns, for every name, the six URLs
\* https://www.N.com, https://N.com, http://www.N.com, http://N.com,
\* https://N.net, https://www.N.org in this order, N being the lower-cased,
\* space-free cleaned name, the empty N included.
C18_SixURLsInOrder ==
    clean_pc = "generated" =>
        urls = << <<"https://www.", NormalizedHost, ".com">>,
                  <<"https://", NormalizedHost, ".com">>,
                  <<"http://www.", NormalizedHost, ".com">>,
                  <<"http://", NormalizedHost, ".com">>,
                  <<"https://", NormalizedHost, ".net">>,
                  <<"https://www.", NormalizedHost, ".org">> >>

\* the URLs of a name that cleans to the empty string have been generated
C18_Witness ==
    /\ clean_pc = "generated"
    /\ clean_name # <<>>
    /\ cleaned = <<>>
    /\ Len(urls) = 6

\* C17: the memoization of clean_company_name is not observable: every call,
\* after any sequence of calls, evictions included, returns what an uncached
\* evaluation of its argument returns.
C17_MemoNotObservable ==
    cache_arg # <<>> => cache_ret = clean_company_name(cache_arg)

\* after more misses than the cache has room for, so that an entry has been
\* dropped, a call has hit the cache and returned the stored value
C17_Witness ==
    /\ cache_misses > MaxCacheSize
    /\ cache_hit
    /\ cache_ret = clean_company_name(cache_arg)

\* C19: in the pooled strategy the number of probes in flight never exceeds
\* the size of the pool, nor the capacity of the concurrency limiter when
\* that is the smaller of the two.
C19_InFlightBounded ==
    phase = "parallel" =>
        /\ Cardinality(ParRunning) <= max_workers
        /\ DefaultMaxConcurrent < max_workers =>
              Cardinality(ParRunning) <= DefaultMaxConcurrent

\* the input lines, each without the whitespace around it and with one
\* newline after it, in the order of the file
RECURSIVE StrippedLines(_)
StrippedLines(lines) ==
    IF lines = <<>> THEN <<>>
    ELSE Strip(Head(lines), LineWhitespace) \o <<"\n">>
            \o StrippedLines(Tail(lines))

\* C20: task3_parallel_sequential_write keeps the sequence of the file: for
\* every file with at least one line, whether or not the number of lines is
\* a multiple of the number of processes and in whatever order the workers
\* finish, the function does not raise and the output holds the stripped
\* input lines, each once, in their original order.
C20_Task3KeepsSequence ==
    /\ t3_pc = "written" => t3_output = StrippedLines(t3_lines)
    /\ t3_pc = "ZeroDivisionError" => t3_lines = <<>>

\* the output of a file whose line count is no multiple of the number of
\* processes has been written: there were more chunks than processes, the
\* last chunk held the remainder, and the second chunk was done before the
\* first
C20_Witness ==
    /\ t3_pc = "written"
    /\ Len(t3_lines) % t3_num_processes # 0
    /\ Len(t3_chunks) > t3_num_processes
    /\ Len(t3_chunks[Len(t3_chunks)]) < Len(t3_chunks[1])
    /\ t3_finished[1] = 2
    /\ t3_processed[1] # t3_processed[2]

\* the GETs that the async probe of companies[i] has issued
AsyncGets(i) == { g \in issued : g.strategy = "async" /\ g.i = i }

\* How often the async probe of companies[i] has taken a slot: the async
\* with block is entered once, before the loop over the URLs.
Acquisitions(i) == IF task_pc[i] = "created" THEN 0 ELSE 1

\* C21: the async probe takes and frees a slot per candidate attempt: each
\* time it takes the slot it calls the rate limiter and issues one GET before
\* it frees the slot, so a probe that is over has issued as many GETs as it
\* has taken slots.
C21_SlotPerAttempt ==
    \A i \in DOMAIN task_pc :
        task_pc[i] \in {"returned", "raised"} =>
            Cardinality(AsyncGets(i)) = Acquisitions(i)

\* C22: the time recorded in a company's result is the time from the start of
\* that company's first attempt to the end of its last one: the company's
\* failed attempts are in it, the time before its first attempt is not.
C22_ElapsedIsOwnAttempts ==
    \A i \in DOMAIN el_pc :
        (el_pc[i] = "done" /\ el_time_taken[i] # None) =>
            el_time_taken[i] = <<el_ended[i] - el_began[i]>>

\* C23: task7_threaded_queue_write terminates for every file and every
\* number of threads: whatever the interleaving of the workers' empty()
\* checks and get() calls, every worker exits and the joins return.
C23_Task7Terminates == <>(t7_main = "returned")

T7InSection == { w \in DOMAIN t7_pc : t7_pc[w] = "append" }

\* the number of positions of a list that hold x
Occurrences(x, list) == Cardinality({ i \in DOMAIN list : list[i] = x })

\* C24: at most one worker is inside the file-append section at a time, and
\* once the workers have finished the output holds every stripped input line
\* exactly as often as the input does, none lost and none duplicated.
C24_Task7AppendsEachOnce ==
    /\ Cardinality(T7InSection) <= 1
    /\ t7_main = "returned" =>
          /\ Len(t7_output) = Len(t7_lines)
          /\ \A i \in DOMAIN t7_lines :
                LET line == Strip(t7_lines[i], LineWhitespace) \o <<"\n">>
                IN  Occurrences(line, t7_output) =
                       Cardinality({ j \in DOMAIN t7_lines :
                           Strip(t7_lines[j], LineWhitespace) \o <<"\n">>
                              = line })

\* C25: task2_batch_write writes what task1_sequential_write writes, for
\* every file and every batch_size >= 1: while it runs, the lines written
\* followed by the lines held in the batch are what task1 wrote for the
\* lines read so far, and when it has returned the two outputs are equal.
C25_BatchWritesSameOutput ==
    /\ b_pc = "task2" =>
          Writelines(b_out2, b_batch) = StrippedLines(SubSeq(b_lines, 1, b_pos))
    /\ b_pc \in {"task2", "done"} => b_out1 = StrippedLines(b_lines)
    /\ b_pc = "done" => b_out2 = b_out1

\* task2 has returned after writing at least one full batch of two or more
\* lines and a last, partial batch
C25_Witness ==
    /\ b_pc = "done"
    /\ b_batch_size >= 2
    /\ Len(b_lines) > b_batch_size
    /\ Len(b_lines) % b_batch_size # 0
    /\ b_batch # <<>>
    /\ b_out2 = b_out1
    /\ \E i, j \in DOMAIN b_lines : b_lines[i] # b_lines[j]

\* every probe task of the running batch gets its slot, finishes and gives
\* the slot back
ProbesFinish ==
    \A i \in 1..MaxCompanies :
        (phase = "async" /\ i \in DOMAIN task_pc)
            ~> (/\ i \in DOMAIN task_pc
                /\ task_pc[i] \in {"returned", "raised"}
                /\ semaphore >= 0)

\* C26: a cooperative-async batch run with max_concurrent >= 1 terminates:
\* every probe task eventually acquires a slot, finishes and releases it,
\* and run_async eventually returns.
C26_AsyncRunReturns ==
    /\ ProbesFinish
    /\ (phase = "async") ~> (AsyncEnded /\ async_outcome = "returned")

\* the part of C26 that the code keeps: the run ends, with every slot free
AsyncRunEnds ==
    /\ ProbesFinish
    /\ (phase = "async") ~> (AsyncEnded /\ semaphore = max_concurrent)

\* result i of the list is the result of companies[i]
InInputOrder(results) ==
    /\ Len(results) = Len(companies)
    /\ \A i \in DOMAIN results : results[i].original_name = companies[i]

\* C27: the list check_websites_parallel returns and the list
\* check_websites_async returns are in input order, whatever the order in
\* which the probes finished.
C27_ResultsInInputOrder ==
    /\ phase = "analyze_parallel" => InInputOrder(par_results)
    /\ phase = "analyze_async" => InInputOrder(async_results)

\* the pool has returned the results of two different companies, the call
\* for the second of which finished before the call for the first
C27_Witness ==
    /\ phase = "analyze_parallel"
    /\ par_overtaken
    /\ Len(companies) >= 2
    /\ companies[1] # companies[2]
    /\ InInputOrder(par_results)

====
